---- MODULE Spec2Model ----
(***************************************************************************)
(* GraphLit ResearchRadar: a verification model of the web client (the     *)
(* session utility, the response-validation layer, the query-hook cache,   *)
(* the search bar, the search page and its requests in flight, the         *)
(* community pages, the routed pages and the recommendations query), of    *)
(* the citation expansion pipeline with its rate limiter and its failure   *)
(* handling, and of the analytics service (its caching discipline and the  *)
(* join of its candidate queries).  Each subsystem has its own variables   *)
(* and its own specification; a specification holds the variables of the   *)
(* other subsystems at their idle values.                                  *)
(***************************************************************************)
EXTENDS Integers, Sequences, FiniteSets, TLC

VARIABLES
  \* session utility (browser storage)
  localStorage,    \* value stored under the key graphlit_session_id, or null
  uuidCount,       \* how many identifiers crypto.randomUUID has produced
  sessionId,       \* SessionManager's component state
  sessionLog,      \* history: one record per call / mount / clear
  \* response-validation layer
  schemaName,      \* the schema a candidate is parsed against
  candidate,       \* the candidate object
  parseResult,     \* "pending", "ok" or "rejected"
  \* API functions (one read operation at a time)
  apiOp,           \* the read operation called, or "none"
  apiState,        \* "idle", "requested", "responded", "returned" or "threw"
  apiBody,         \* response.data of the HTTP response
  apiValue,        \* the value the operation returned to its hook
  \* query-hook cache (the shared query client)
  cache,           \* cache key -> entry of the query cache
  wire,            \* the HTTP requests that have not been answered yet
  reqCount,        \* how many HTTP requests the query functions have issued
  clock,           \* minutes since the page was loaded
  trackState,      \* status of the view-tracking mutation
  owed,            \* history: cached data of the key was invalidated, and
                   \* since then the key was neither read nor requested
  \* search bar
  sbMounted,       \* the SearchBar component is mounted
  query,           \* useState: the text of the input (a sequence of characters)
  debouncedQuery,  \* useDebounce: the debounced text
  timer,           \* ms until the debounce timer fires, or -1 when not armed
  navs,            \* history: the URLs given to router.push, in order
  settled,         \* history: the texts that stayed unchanged for the delay
  keystrokes,      \* history: number of changes of the input
  \* community pages
  page,            \* the route shown: "none", "list" or "detail"
  listData,        \* useCommunities data: the communities, once loaded
  cards,           \* the community cards rendered by the list page
  minYear,         \* detail page state: the minimum-year floor (number | null)
  emitted,         \* history: the values YearFilterToggle passed to onChange
  trendingData,    \* useCommunityTrending data: the papers, once loaded
  served,          \* history: the trending papers as the service sent them
  bridging,        \* the papers given to BridgingPapers
  \* search page
  revision,        \* which search page is mounted: "none", "SearchPage"
                   \* or "SearchContent"
  initialQuery,    \* searchParams.get('q') || ''
  topics,          \* useState: the topic set
  yearRange,       \* useState: <<year_min, year_max>>
  limit,           \* useState of SearchContent: the result limit
  minImpact,       \* useState of SearchPage: the minimum impact
  searches,        \* history: number of query-recommendation requests issued
  lastSearch,      \* history: the latest request
  searchEvents,    \* history: number of user actions on the page
  \* citation-network expansion pipeline (orchestrator, API data, graph store)
  exPhase,         \* "idle", "seeds", "traversal", "linking" or "done"
  maxPapers,       \* settings.max_papers
  maxDepth,        \* settings.max_depth
  seedsLeft,       \* the seed DOIs that expand has not resolved yet
  queue,           \* self.queue: FIFO of <<openalex id, depth>>
  visited,         \* self.visited
  works,           \* the bibliographic API's answers, fixed once given
  paperNodes,      \* graph store: openalex id -> number of Paper nodes
  authorNodes,     \* graph store: author id -> number of Author nodes
  citesEdges,      \* graph store: <<citing, cited>> -> number of CITES edges
  linkLeft,        \* relationship pass: the visited papers still to link
  linkPasses,      \* history: relationship passes started in this run
  runs,            \* history: number of completed runs
  afterFirst,      \* history: the graph store when the first run ended
  seedDois,        \* data/seeds.json: the seed DOIs every run loads
  \* bibliographic API client (OpenAlexClient and its limiter)
  level,           \* AsyncLimiter: the fill level of the bucket
  window,          \* history: requests issued in the previous and in the
                   \* current half second
  limClock,        \* half seconds since the client was built
  lastWork,        \* what the latest get_work returned: "work" or "None"
  \* analytics service (per-paper recommendations behind its cache)
  recCache,        \* cache key -> the cached response, if any
  svcClock,        \* half hours since the service started
  cacheUp,         \* the caching backend is reachable
  graphRev,        \* revision of the derived graph data the service reads
  svcLog,          \* history: the requests answered and invalidations done
  \* routed pages (paper detail, feed, community list)
  route,           \* the page mounted: "none", "paper", "feed", "communities"
  primary,         \* the page's primary query: status and what it returned
  pageBody,        \* the sections the page renders
  minSimilarity,   \* paper detail, useState: the threshold in percent
  recQueries,      \* threshold -> the recommendations query of that key
  recData,         \* the recData the paper detail page is given
  viewTrack,       \* status of the view-tracking mutation
  lateArrival,     \* history: a recommendations response arrived for a
                   \* threshold that was no longer the selected one
  \* queryRecommendations (request validation, then the POST)
  qState,          \* "idle", "threw", "posted" or "answered"
  qRequest,        \* the request object of the latest call
  qPosted,          \* history: the bodies given to apiClient.post, in order
  \* community detail page
  dOpen,           \* the community detail page is mounted
  communityId,     \* parseInt of the path segment
  dMinYear,        \* the floor of the year toggle
  dTab,            \* the tab shown
  dQuery,          \* hook -> whether it is observed, and with which floor
  dCalls,           \* history: the queryFn calls made
  \* failure handling of one fetch
  fetchLog,        \* history: one record per frontier entry fetched
  aborted,          \* an exception left the BFS loop
  \* search page requests in flight
  mutations,       \* the mutations started by mutate, in order
  results,         \* the mutation whose data the page shows, 0 for none
  settleOrder,      \* history: the order the mutations settled in
  \* per-paper recommendation computation
  recPhase,        \* "idle", "gathering", "scored" or "raised"
  candTasks,       \* query -> its status and the candidates it returned
  candOrder,       \* history: the order the queries finished in
  scoredWith       \* the queries whose candidates the score was computed from

sessionVars == <<localStorage, uuidCount, sessionId, sessionLog>>
schemaVars  == <<schemaName, candidate, parseResult>>
apiVars     == <<apiOp, apiState, apiBody, apiValue>>
cacheVars   == <<cache, wire, reqCount, clock, trackState, owed>>
searchBarVars ==
  <<sbMounted, query, debouncedQuery, timer, navs, settled, keystrokes>>
communityVars ==
  <<page, listData, cards, minYear, emitted, trendingData, served, bridging>>
searchVars ==
  <<revision, initialQuery, topics, yearRange, limit, minImpact, searches,
    lastSearch, searchEvents>>
expansionVars ==
  <<exPhase, maxPapers, maxDepth, seedsLeft, queue, visited, works, paperNodes,
    authorNodes, citesEdges, linkLeft, linkPasses, runs, afterFirst,
    seedDois>>
limiterVars == <<level, window, limClock, lastWork>>
analyticsVars == <<recCache, svcClock, cacheUp, graphRev, svcLog>>
pageVars ==
  <<route, primary, pageBody, minSimilarity, recQueries, recData, viewTrack,
    lateArrival>>
queryVars == <<qState, qRequest, qPosted>>
detailVars == <<dOpen, communityId, dMinYear, dTab, dQuery, dCalls>>
fetchVars == <<fetchLog, aborted>>
mutationVars == <<mutations, results, settleOrder>>
gatherVars == <<recPhase, candTasks, candOrder, scoredWith>>
vars ==
  <<sessionVars, schemaVars, apiVars, cacheVars, searchBarVars, communityVars,
    searchVars, expansionVars, limiterVars, analyticsVars, pageVars,
    queryVars,
    detailVars,
    fetchVars,
    mutationVars,
    gatherVars>>

null == "<null>"

(***************************************************************************)
(* Idle values and frames: what a specification of one subsystem keeps of  *)
(* the others.                                                             *)
(***************************************************************************)
SessionIdle ==
  /\ localStorage = null
  /\ uuidCount = 0
  /\ sessionId = null
  /\ sessionLog = <<>>

SchemaIdle ==
  /\ schemaName = "none"
  /\ candidate = <<>>
  /\ parseResult = "pending"

ApiIdle ==
  /\ apiOp = "none"
  /\ apiState = "idle"
  /\ apiBody = <<>>
  /\ apiValue = <<>>

\* the cache keys of the model: two feed keys (same session, limits 30 and
\* 20) and one key of a hook that nothing invalidates
KeySeq == << <<"feed", "s1", "30">>, <<"feed", "s1", "20">>, <<"paper", "W1">> >>
CacheKeys == {KeySeq[i] : i \in 1..Len(KeySeq)}
KeyIndex(k) == CHOOSE i \in 1..Len(KeySeq) : KeySeq[i] = k

\* a query that no hook has used yet
NoEntry ==
  [exists |-> FALSE, data |-> 0, updatedAt |-> 0, invalidated |-> FALSE,
   fetching |-> 0, observers |-> 0]

CacheIdle ==
  /\ cache = [k \in CacheKeys |-> NoEntry]
  /\ wire = {}
  /\ reqCount = 0
  /\ clock = 0
  /\ trackState = "idle"
  /\ owed = [k \in CacheKeys |-> FALSE]

SearchBarIdle ==
  /\ sbMounted = FALSE
  /\ query = <<>>
  /\ debouncedQuery = <<>>
  /\ timer = -1
  /\ navs = <<>>
  /\ settled = <<>>
  /\ keystrokes = 0

\* values of type number | null
JsNull == [isNull |-> TRUE, v |-> 0]
JsNum(x) == [isNull |-> FALSE, v |-> x]

\* what a query hook gives its page: no data yet, or the data
Loading == [loaded |-> FALSE, items |-> <<>>]
Loaded(xs) == [loaded |-> TRUE, items |-> xs]

CommunityIdle ==
  /\ page = "none"
  /\ listData = Loading
  /\ cards = <<>>
  /\ minYear = JsNull
  /\ emitted = <<>>
  /\ trendingData = Loading
  /\ served = <<>>
  /\ bridging = <<>>

NoSearch == [topics |-> {}, year_min |-> 0, year_max |-> 0, limit |-> 0]

SearchIdle ==
  /\ revision = "none"
  /\ initialQuery = ""
  /\ topics = {}
  /\ yearRange = <<0, 0>>
  /\ limit = 0
  /\ minImpact = 0
  /\ searches = 0
  /\ lastSearch = NoSearch
  /\ searchEvents = 0

\* the works and authors the bibliographic API knows
Works == {"W1", "W2", "W3"}
Authors == {"A1", "A2"}

\* a work the pipeline has not asked the API about yet
NotAsked == [status |-> "unasked", refs |-> <<>>, author |-> "A1"]

EmptyStore ==
  [papers |-> [w \in Works |-> 0], authors |-> [a \in Authors |-> 0],
   cites |-> [e \in Works \X Works |-> 0]]

ExpansionIdle ==
  /\ exPhase = "idle"
  /\ maxPapers = 0
  /\ maxDepth = 0
  /\ seedsLeft = <<>>
  /\ queue = <<>>
  /\ visited = {}
  /\ works = [w \in Works |-> NotAsked]
  /\ paperNodes = EmptyStore.papers
  /\ authorNodes = EmptyStore.authors
  /\ citesEdges = EmptyStore.cites
  /\ linkLeft = {}
  /\ linkPasses = 0
  /\ runs = 0
  /\ afterFirst = EmptyStore
  /\ seedDois = <<>>

LimiterIdle ==
  /\ level = 0
  /\ window = <<0, 0>>
  /\ limClock = 0
  /\ lastWork = "None"

\* the per-paper recommendation requests of the model: paper id, limit and
\* min_similarity (in tenths)
RecKeys == {<<"W1", 10, 3>>, <<"W1", 10, 5>>}

NoCached == [present |-> FALSE, value |-> <<"", 0>>, expires |-> 0]

AnalyticsIdle ==
  /\ recCache = [k \in RecKeys |-> NoCached]
  /\ svcClock = 0
  /\ cacheUp = TRUE
  /\ graphRev = 0
  /\ svcLog = <<>>

\* the slider positions of the model, in percent: the default and two more
Thresholds == {10, 30, 55}

\* the primary query of a page: its status, the number of items its data
\* lists and the viewing_history_count of a feed
NoQuery == [status |-> "idle", items |-> 0, history |-> 0]

\* a recommendations query nobody has used yet; fetching is the threshold
\* of the request in flight, data the threshold of the request whose
\* response the query holds, 0 when there is none
NoRecQuery == [status |-> "none", fetching |-> 0, data |-> 0]

PageIdle ==
  /\ route = "none"
  /\ primary = NoQuery
  /\ pageBody = {}
  /\ minSimilarity = 30
  /\ recQueries = [t \in Thresholds |-> NoRecQuery]
  /\ recData = 0
  /\ viewTrack = "idle"
  /\ lateArrival = FALSE

QueryIdle ==
  /\ qState = "idle"
  /\ qRequest = <<>>
  /\ qPosted = <<>>

\* values of type number as parseInt gives them: NaN, or an integer
NaN == [nan |-> TRUE, v |-> 0]
Num(x) == [nan |-> FALSE, v |-> x]

DetailIdle ==
  /\ dOpen = FALSE
  /\ communityId = NaN
  /\ dMinYear = JsNull
  /\ dTab = "papers"
  /\ dQuery = [h \in {"trending", "network", "analytics"} |->
                 [observed |-> FALSE, minYear |-> JsNull]]
  /\ dCalls = {}

FetchIdle ==
  /\ fetchLog = <<>>
  /\ aborted = FALSE

MutationIdle ==
  /\ mutations = <<>>
  /\ results = 0
  /\ settleOrder = <<>>

\* the four candidate-generation queries, in the order gather is given them
CandidateQueries == <<"citation", "topic", "author", "velocity">>
QueryNames == {CandidateQueries[i] : i \in 1..Len(CandidateQueries)}
NotStarted == [status |-> "none", candidates |-> 0]

GatherIdle ==
  /\ recPhase = "idle"
  /\ candTasks = [q \in QueryNames |-> NotStarted]
  /\ candOrder = <<>>
  /\ scoredWith = {}

IdleExcept(sub) ==
  /\ IF sub = "session" THEN TRUE ELSE SessionIdle
  /\ IF sub = "schema" THEN TRUE ELSE SchemaIdle
  /\ IF sub = "api" THEN TRUE ELSE ApiIdle
  /\ IF sub = "cache" THEN TRUE ELSE CacheIdle
  /\ IF sub = "searchbar" THEN TRUE ELSE SearchBarIdle
  /\ IF sub = "community" THEN TRUE ELSE CommunityIdle
  /\ IF sub = "search" THEN TRUE ELSE SearchIdle
  /\ IF sub = "expansion" THEN TRUE ELSE ExpansionIdle
  /\ IF sub = "limiter" THEN TRUE ELSE LimiterIdle
  /\ IF sub = "analytics" THEN TRUE ELSE AnalyticsIdle
  /\ IF sub = "pages" THEN TRUE ELSE PageIdle
  /\ IF sub = "query" THEN TRUE ELSE QueryIdle
  /\ IF sub = "detail" THEN TRUE ELSE DetailIdle
  /\ IF sub = "fetch" THEN TRUE ELSE FetchIdle
  /\ IF sub = "mutation" THEN TRUE ELSE MutationIdle
  /\ IF sub = "gather" THEN TRUE ELSE GatherIdle

FrameExcept(sub) ==
  /\ IF sub = "session" THEN TRUE ELSE UNCHANGED sessionVars
  /\ IF sub = "schema" THEN TRUE ELSE UNCHANGED schemaVars
  /\ IF sub = "api" THEN TRUE ELSE UNCHANGED apiVars
  /\ IF sub = "cache" THEN TRUE ELSE UNCHANGED cacheVars
  /\ IF sub = "searchbar" THEN TRUE ELSE UNCHANGED searchBarVars
  /\ IF sub = "community" THEN TRUE ELSE UNCHANGED communityVars
  /\ IF sub = "search" THEN TRUE ELSE UNCHANGED searchVars
  /\ IF sub = "expansion" THEN TRUE ELSE UNCHANGED expansionVars
  /\ IF sub = "limiter" THEN TRUE ELSE UNCHANGED limiterVars
  /\ IF sub = "analytics" THEN TRUE ELSE UNCHANGED analyticsVars
  /\ IF sub = "pages" THEN TRUE ELSE UNCHANGED pageVars
  /\ IF sub = "query" THEN TRUE ELSE UNCHANGED queryVars
  /\ IF sub = "detail" THEN TRUE ELSE UNCHANGED detailVars
  /\ IF sub = "fetch" THEN TRUE ELSE UNCHANGED fetchVars
  /\ IF sub = "mutation" THEN TRUE ELSE UNCHANGED mutationVars
  /\ IF sub = "gather" THEN TRUE ELSE UNCHANGED gatherVars

(***************************************************************************)
(* Session utility: getOrCreateSessionId and SessionManager.               *)
(***************************************************************************)
MaxSessionEvents == 4

\* crypto.randomUUID(): the n-th identifier produced; identifiers never repeat
RandomUUID(n) == "uuid-" \o ToString(n + 1)

\* `!sessionId`: null and the empty string are falsy
NeedsNewIdAlways(stored) == TRUE
NeedsNewId(stored) == stored = null \/ stored = ""

\* the identifier a browser-side read-or-create ends with
ResolvedId(stored, n) == IF NeedsNewId(stored) THEN RandomUUID(n) ELSE stored

SessionInit ==
  /\ localStorage = null
  /\ uuidCount = 0
  /\ sessionId = null
  /\ sessionLog = <<>>
  /\ IdleExcept("session")

\* getOrCreateSessionId() in the browser (window defined)
GetOrCreateSessionId ==
  /\ Len(sessionLog) < MaxSessionEvents
  /\ LET stored == localStorage
         id == ResolvedId(stored, uuidCount)
     IN /\ localStorage' = id
        /\ uuidCount' = IF NeedsNewId(stored) THEN uuidCount + 1 ELSE uuidCount
        /\ sessionLog' = Append(sessionLog,
             [kind |-> "call", before |-> stored, after |-> id, ret |-> id,
              wrote |-> NeedsNewId(stored)])
  /\ UNCHANGED sessionId
  /\ FrameExcept("session")

\* getOrCreateSessionId() during a server render (typeof window === 'undefined')
GetOrCreateSessionIdServer ==
  /\ Len(sessionLog) < MaxSessionEvents
  /\ sessionLog' = Append(sessionLog,
       [kind |-> "server", before |-> localStorage, after |-> localStorage,
        ret |-> "", wrote |-> FALSE])
  /\ UNCHANGED <<localStorage, uuidCount, sessionId>>
  /\ FrameExcept("session")

\* SessionManager's mount effect
SessionManagerMount ==
  /\ Len(sessionLog) < MaxSessionEvents
  /\ LET stored == localStorage
         id == ResolvedId(stored, uuidCount)
     IN /\ localStorage' = id
        /\ uuidCount' = IF NeedsNewId(stored) THEN uuidCount + 1 ELSE uuidCount
        /\ sessionId' = id
        /\ sessionLog' = Append(sessionLog,
             [kind |-> "mount", before |-> stored, after |-> id, ret |-> id,
              wrote |-> NeedsNewId(stored)])
  /\ FrameExcept("session")

\* the user clears the browser storage; the page's component state is lost with
\* the reload that follows
ClearStorage ==
  /\ Len(sessionLog) < MaxSessionEvents
  /\ localStorage' = null
  /\ sessionId' = null
  /\ sessionLog' = Append(sessionLog,
       [kind |-> "clear", before |-> localStorage, after |-> null, ret |-> "",
        wrote |-> FALSE])
  /\ UNCHANGED uuidCount
  /\ FrameExcept("session")

SessionNext ==
  \/ GetOrCreateSessionId
  \/ GetOrCreateSessionIdServer
  \/ SessionManagerMount
  \/ ClearStorage

SpecSession == SessionInit /\ [][SessionNext]_vars

BrowserRead(e) == e.kind \in {"call", "mount"}

ClearBetween(i, j) == \E k \in (i + 1)..(j - 1) : sessionLog[k].kind = "clear"

\* C3: with no clear of the storage in between, every browser-side call and
\* mount returns the same identifier, the one generated first, and the key is
\* written only while it is absent; across a clear the identifier returned is
\* a new one, different from every earlier one, and it is stored.
SessionIdPersists ==
  /\ \A i \in DOMAIN sessionLog :
       LET e == sessionLog[i] IN
         /\ e.wrote => (e.before = null /\ e.after = e.ret)
         /\ BrowserRead(e) => (e.after = e.ret /\ e.ret # null /\ e.ret # "")
         /\ (BrowserRead(e) /\ e.before # null) => (e.ret = e.before /\ ~e.wrote)
  /\ \A i, j \in DOMAIN sessionLog :
       (i < j /\ BrowserRead(sessionLog[i]) /\ BrowserRead(sessionLog[j])) =>
         IF ClearBetween(i, j)
           THEN sessionLog[j].ret # sessionLog[i].ret
           ELSE sessionLog[j].ret = sessionLog[i].ret
  /\ (sessionLog # <<>> /\ BrowserRead(sessionLog[Len(sessionLog)])) =>
       localStorage = sessionLog[Len(sessionLog)].ret

\* a call, a clear, and a call again: the second call has generated a new id
SessionIdPersistsWitness ==
  \E i, j, k \in DOMAIN sessionLog :
    /\ i < j /\ j < k /\ k < Len(sessionLog)
    /\ BrowserRead(sessionLog[i]) /\ BrowserRead(sessionLog[j])
    /\ sessionLog[k].kind = "clear"
    /\ BrowserRead(sessionLog[Len(sessionLog)])
    /\ sessionLog[Len(sessionLog)].wrote
    /\ sessionLog[j].ret = sessionLog[i].ret

(***************************************************************************)
(* Response-validation layer (zod schemas).  A JSON value is a record:     *)
(* k is its kind, n/d a number as a fraction, s a string as a sequence of  *)
(* characters (or the kinds of an array's elements), f the fields of an    *)
(* object (or the elements of an array of objects).  An absent key is the  *)
(* value of kind "undef".                                                  *)
(***************************************************************************)
JNum(n, d) == [k |-> "num", n |-> n, d |-> d, s |-> <<>>, f |-> <<>>]
JInt(n)    == JNum(n, 1)
JStr(s)    == [k |-> "str", n |-> 0, d |-> 1, s |-> s, f |-> <<>>]
JBool      == [k |-> "bool", n |-> 1, d |-> 1, s |-> <<>>, f |-> <<>>]
JNull      == [k |-> "null", n |-> 0, d |-> 1, s |-> <<>>, f |-> <<>>]
JUndef     == [k |-> "undef", n |-> 0, d |-> 1, s |-> <<>>, f |-> <<>>]
JArr(ks)   == [k |-> "arr", n |-> 0, d |-> 1, s |-> ks, f |-> <<>>]
JObj(f)    == [k |-> "obj", n |-> 0, d |-> 1, s |-> <<>>, f |-> f]
JItems(xs) == [k |-> "items", n |-> 0, d |-> 1, s |-> <<>>, f |-> xs]

Digits == {"0", "1", "2", "3", "4", "5", "6", "7", "8", "9"}

\* z.number(), z.string(), z.boolean() and their refinements
ZNumber(v) == v.k = "num"
ZString(v) == v.k = "str"
ZBoolean(v) == v.k = "bool"
ZInt(v) == v.n % v.d = 0
ZMin(v, m) == v.n >= m * v.d
ZMaxLoose(v, m) == v.n <= (m + m) * v.d
ZMax(v, m) == v.n <= m * v.d
ZPositive(v) == v.n > 0
ZOptional(v, ok) == v.k = "undef" \/ ok
ZNullable(v, ok) == v.k = "null" \/ ok
ZArrayOfString(v) == v.k = "arr" /\ \A i \in DOMAIN v.s : v.s[i] = "str"

\* /^W\d+$/
MatchesOpenAlexIdUnanchored(s) ==
  /\ Len(s) >= 2
  /\ \A i \in 2..Len(s) : s[i] \in Digits
MatchesOpenAlexId(s) ==
  /\ Len(s) >= 2
  /\ s[1] = "W"
  /\ \A i \in 2..Len(s) : s[i] \in Digits

ZPaperId(v) == ZString(v) /\ MatchesOpenAlexId(v.s)
ZTitle(v) == ZString(v) /\ Len(v.s) >= 1
ZYear(v) == ZNumber(v) /\ ZInt(v) /\ ZMin(v, 1900) /\ ZMax(v, 2100)
ZCount(v) == ZNumber(v) /\ ZInt(v) /\ ZMin(v, 0)
ZImpact(v) == ZNumber(v) /\ ZMin(v, 0) /\ ZMax(v, 100)
ZRatio(v) == ZNumber(v) /\ ZMin(v, 0) /\ ZMax(v, 1)

SimilarityBreakdownSchema(o) ==
  /\ o.k = "obj"
  /\ ZRatio(o.f.citation_overlap)
  /\ ZRatio(o.f.topic_affinity)
  /\ ZRatio(o.f.author_collaboration)
  /\ ZRatio(o.f.citation_velocity)

RecommendationItemSchema(o) ==
  /\ o.k = "obj"
  /\ ZPaperId(o.f.paper_id)
  /\ ZTitle(o.f.title)
  /\ ZYear(o.f.year)
  /\ ZCount(o.f.citations)
  /\ ZImpact(o.f.impact_score)
  /\ ZRatio(o.f.similarity_score)
  /\ ZOptional(o.f.similarity_breakdown, SimilarityBreakdownSchema(o.f.similarity_breakdown))
  /\ ZOptional(o.f.matched_topics, ZArrayOfString(o.f.matched_topics))
  /\ ZOptional(o.f.topic_match_count, ZNumber(o.f.topic_match_count))
  /\ ZOptional(o.f.relevance_score, ZNumber(o.f.relevance_score))
  /\ ZOptional(o.f.community, ZNumber(o.f.community))
  /\ ZOptional(o.f.pagerank, ZNumber(o.f.pagerank))
  /\ ZOptional(o.f.betweenness, ZNumber(o.f.betweenness))
  /\ ZOptional(o.f.personalized_score, ZNumber(o.f.personalized_score))

PaperRecommendationsResponseSchema(o) ==
  /\ o.k = "obj"
  /\ o.f.recommendations.k = "items"
  /\ \A i \in DOMAIN o.f.recommendations.f :
       RecommendationItemSchema(o.f.recommendations.f[i])
  /\ ZCount(o.f.total)
  /\ ZBoolean(o.f.cached)
  /\ ZOptional(o.f.cache_ttl_seconds,
       ZNullable(o.f.cache_ttl_seconds,
         ZNumber(o.f.cache_ttl_seconds) /\ ZInt(o.f.cache_ttl_seconds)
           /\ ZPositive(o.f.cache_ttl_seconds)))
  /\ ZOptional(o.f.user_session_id, ZString(o.f.user_session_id))
  /\ ZOptional(o.f.viewing_history_count, ZNumber(o.f.viewing_history_count))

PaperDetailItemSchema(o) ==
  /\ o.k = "obj"
  /\ ZPaperId(o.f.paper_id)
  /\ ZTitle(o.f.title)
  /\ ZNullable(o.f.year, ZYear(o.f.year))
  /\ ZCount(o.f.citations)
  /\ ZNullable(o.f.impact_score, ZImpact(o.f.impact_score))
  /\ ZNullable(o.f.abstract, ZString(o.f.abstract))
  /\ ZNullable(o.f.doi, ZString(o.f.doi))
  /\ ZNullable(o.f.community, ZNumber(o.f.community))
  /\ ZArrayOfString(o.f.topics)

CommunityListItemSchema(o) ==
  /\ o.k = "obj"
  /\ ZNumber(o.f.id) /\ ZInt(o.f.id)
  /\ ZCount(o.f.paper_count)
  /\ ZNullable(o.f.avg_impact, ZNumber(o.f.avg_impact))
  /\ ZArrayOfString(o.f.top_topics)

CommunitiesResponseSchema(o) ==
  /\ o.k = "obj"
  /\ o.f.communities.k = "items"
  /\ \A i \in DOMAIN o.f.communities.f : CommunityListItemSchema(o.f.communities.f[i])
  /\ ZCount(o.f.total)

TrendingPaperItemSchema(o) ==
  /\ o.k = "obj"
  /\ ZPaperId(o.f.paper_id)
  /\ ZTitle(o.f.title)
  /\ ZYear(o.f.year)
  /\ ZCount(o.f.citations)
  /\ ZNullable(o.f.impact_score, ZImpact(o.f.impact_score))
  /\ ZNullable(o.f.pagerank, ZNumber(o.f.pagerank))
  /\ ZOptional(o.f.community, ZNumber(o.f.community))

TrendingPapersResponseSchema(o) ==
  /\ o.k = "obj"
  /\ ZNumber(o.f.community_id) /\ ZInt(o.f.community_id)
  /\ ZNullable(o.f.community_label, ZString(o.f.community_label))
  /\ o.f.trending_papers.k = "items"
  /\ \A i \in DOMAIN o.f.trending_papers.f :
       TrendingPaperItemSchema(o.f.trending_papers.f[i])
  /\ ZCount(o.f.total)

TopicDistributionItemSchema(o) ==
  /\ o.k = "obj"
  /\ ZString(o.f.name)
  /\ ZCount(o.f.value)
  /\ ZCount(o.f.paper_count)

CommunityAnalyticsResponseSchema(o) ==
  /\ o.k = "obj"
  /\ ZRatio(o.f.network_density)
  /\ ZString(o.f.centrality_mode)
  /\ ZNumber(o.f.avg_pagerank)
  /\ ZRatio(o.f.bridging_nodes_percent)
  /\ ZNumber(o.f.growth_rate)
  /\ o.f.topic_distribution.k = "items"
  /\ \A i \in DOMAIN o.f.topic_distribution.f :
       TopicDistributionItemSchema(o.f.topic_distribution.f[i])
  /\ ZCount(o.f.total_papers)

\* Schema.parse(data): TRUE when the parse returns, FALSE when it throws
SchemaParse(name, o) ==
  CASE name = "SimilarityBreakdown" -> SimilarityBreakdownSchema(o)
    [] name = "RecommendationItem" -> RecommendationItemSchema(o)
    [] name = "PaperRecommendationsResponse" -> PaperRecommendationsResponseSchema(o)
    [] name = "PaperDetailItem" -> PaperDetailItemSchema(o)
    [] name = "CommunityListItem" -> CommunityListItemSchema(o)
    [] name = "CommunitiesResponse" -> CommunitiesResponseSchema(o)
    [] name = "TrendingPaperItem" -> TrendingPaperItemSchema(o)
    [] name = "TrendingPapersResponse" -> TrendingPapersResponseSchema(o)
    [] name = "TopicDistributionItem" -> TopicDistributionItemSchema(o)
    [] name = "CommunityAnalyticsResponse" -> CommunityAnalyticsResponseSchema(o)

ResponseSchemas ==
  {"SimilarityBreakdown", "RecommendationItem", "PaperRecommendationsResponse",
   "PaperDetailItem", "CommunityListItem", "CommunitiesResponse", "TrendingPaperItem",
   "TrendingPapersResponse", "TopicDistributionItem", "CommunityAnalyticsResponse"}
(***************************************************************************)
(* Candidate objects.  For every kind of field, sample values inside       *)
(* (good) and outside (bad) the field's declared constraint; a candidate   *)
(* is a schema's base object with at most MaxVaried fields replaced by a   *)
(* sample.                                                                 *)
(***************************************************************************)
MaxVaried == 1

GoodBreakdown ==
  JObj([citation_overlap |-> JNum(1, 2), topic_affinity |-> JInt(0),
        author_collaboration |-> JInt(1), citation_velocity |-> JNum(1, 4)])
GoodItem ==
  JObj([paper_id |-> JStr(<<"W", "1", "2", "3">>), title |-> JStr(<<"t">>),
        year |-> JInt(2020), citations |-> JInt(7), impact_score |-> JNum(101, 2),
        similarity_score |-> JNum(1, 2), similarity_breakdown |-> JUndef,
        matched_topics |-> JUndef, topic_match_count |-> JUndef,
        relevance_score |-> JUndef, community |-> JUndef, pagerank |-> JUndef,
        betweenness |-> JUndef, personalized_score |-> JUndef])
GoodCommunity ==
  JObj([id |-> JInt(0), paper_count |-> JInt(5), avg_impact |-> JNull,
        top_topics |-> JArr(<<"str">>)])
GoodTrending ==
  JObj([paper_id |-> JStr(<<"W", "9">>), title |-> JStr(<<"t">>), year |-> JInt(1900),
        citations |-> JInt(0), impact_score |-> JNull, pagerank |-> JNum(1, 10),
        community |-> JUndef])
GoodNetPaper ==
  JObj([paper_id |-> JStr(<<"W", "1">>), title |-> JStr(<<"t">>), year |-> JNull,
        citations |-> JInt(3), impact_score |-> JNull, community |-> JInt(1),
        x |-> JNull, y |-> JNum(5, 2)])
GoodEdge == JObj([source |-> JStr(<<"W", "1">>), target |-> JStr(<<"W", "2">>)])
GoodTopic == JObj([name |-> JStr(<<"a">>), value |-> JInt(3), paper_count |-> JInt(3)])

WithField(o, fld, v) == JObj([o.f EXCEPT ![fld] = v])

Good(kind) ==
  CASE kind = "paper_id" -> {JStr(<<"W", "1">>), JStr(<<"W", "1", "2", "3">>)}
    [] kind = "title" -> {JStr(<<"t">>)}
    [] kind = "year" -> {JInt(1900), JInt(2100)}
    [] kind = "year_nullable" -> {JInt(1900), JInt(2100), JNull}
    [] kind = "count" -> {JInt(0), JInt(7)}
    [] kind = "impact" -> {JInt(0), JNum(101, 2), JInt(100)}
    [] kind = "impact_nullable" -> {JInt(0), JInt(100), JNull}
    [] kind = "ratio" -> {JInt(0), JNum(1, 2), JInt(1)}
    [] kind = "number" -> {JInt(3), JNum(-1, 2)}
    [] kind = "opt_number" -> {JUndef, JInt(3), JNum(-1, 2)}
    [] kind = "nullable_number" -> {JNull, JInt(3)}
    [] kind = "int" -> {JInt(0), JInt(-2)}
    [] kind = "string" -> {JStr(<<"a">>), JStr(<<>>)}
    [] kind = "opt_string" -> {JUndef, JStr(<<"a">>)}
    [] kind = "nullable_string" -> {JNull, JStr(<<"a">>)}
    [] kind = "bool" -> {JBool}
    [] kind = "strings" -> {JArr(<<>>), JArr(<<"str">>)}
    [] kind = "opt_strings" -> {JUndef, JArr(<<"str", "str">>)}
    [] kind = "opt_ttl" -> {JUndef, JNull, JInt(3600)}
    [] kind = "opt_breakdown" -> {JUndef, GoodBreakdown}
    [] kind = "items_rec" ->
         {JItems(<<>>), JItems(<<GoodItem>>),
          JItems(<<GoodItem, WithField(GoodItem, "year", JInt(1900))>>)}
    [] kind = "items_community" -> {JItems(<<>>), JItems(<<GoodCommunity>>)}
    [] kind = "items_trending" -> {JItems(<<>>), JItems(<<GoodTrending>>)}
    [] kind = "items_topic" -> {JItems(<<>>), JItems(<<GoodTopic>>)}
    [] kind = "items_netpaper" -> {JItems(<<>>), JItems(<<GoodNetPaper>>)}
    [] kind = "items_edge" -> {JItems(<<>>), JItems(<<GoodEdge>>)}

Bad(kind) ==
  CASE kind = "paper_id" ->
         {JStr(<<"X", "1", "2", "3">>), JStr(<<"W">>), JStr(<<"W", "1", "a">>),
          JStr(<<"w", "1">>), JInt(123), JUndef}
    [] kind = "title" -> {JStr(<<>>), JUndef}
    [] kind = "year" -> {JInt(1899), JInt(2101), JNum(4001, 2), JNull, JUndef}
    [] kind = "year_nullable" -> {JInt(1899), JInt(2101), JNum(4001, 2), JUndef}
    [] kind = "count" -> {JInt(-1), JNum(1, 2), JStr(<<"7">>), JUndef}
    [] kind = "impact" -> {JNum(-1, 10), JInt(150), JNum(1001, 10), JNull, JUndef}
    [] kind = "impact_nullable" -> {JNum(-1, 10), JInt(150), JUndef}
    [] kind = "ratio" -> {JNum(-1, 10), JNum(11, 10), JInt(2), JNull, JUndef}
    [] kind = "number" -> {JNull, JUndef, JStr(<<"3">>)}
    [] kind = "opt_number" -> {JNull, JStr(<<"3">>)}
    [] kind = "nullable_number" -> {JUndef, JStr(<<"3">>)}
    [] kind = "int" -> {JNum(1, 2), JUndef}
    [] kind = "string" -> {JInt(1), JNull, JUndef}
    [] kind = "opt_string" -> {JNull, JInt(1)}
    [] kind = "nullable_string" -> {JUndef, JInt(1)}
    [] kind = "bool" -> {JUndef, JStr(<<"t">>)}
    [] kind = "strings" -> {JArr(<<"str", "num">>), JNull, JUndef}
    [] kind = "opt_strings" -> {JArr(<<"num">>), JNull}
    [] kind = "opt_ttl" -> {JInt(0), JInt(-5), JNum(1, 2)}
    [] kind = "opt_breakdown" ->
         {JNull, WithField(GoodBreakdown, "topic_affinity", JNum(11, 10)),
          WithField(GoodBreakdown, "citation_velocity", JUndef)}
    [] kind = "items_rec" ->
         {JUndef,
          JItems(<<GoodItem, WithField(GoodItem, "paper_id", JStr(<<"X", "1", "2", "3">>))>>),
          JItems(<<WithField(GoodItem, "impact_score", JInt(150))>>)}
    [] kind = "items_community" ->
         {JUndef, JItems(<<WithField(GoodCommunity, "paper_count", JInt(-1))>>)}
    [] kind = "items_trending" ->
         {JUndef, JItems(<<WithField(GoodTrending, "year", JInt(2101))>>)}
    [] kind = "items_topic" ->
         {JUndef, JItems(<<WithField(GoodTopic, "value", JNum(1, 2))>>)}
    [] kind = "items_netpaper" ->
         {JUndef, JItems(<<WithField(GoodNetPaper, "title", JInt(1))>>),
          JItems(<<WithField(GoodNetPaper, "x", JUndef)>>)}
    [] kind = "items_edge" ->
         {JUndef, JItems(<<WithField(GoodEdge, "target", JNull)>>)}

\* the kind of constraint each schema declares for each of its fields
FieldKinds(name) ==
  CASE name = "SimilarityBreakdown" ->
         [citation_overlap |-> "ratio", topic_affinity |-> "ratio",
          author_collaboration |-> "ratio", citation_velocity |-> "ratio"]
    [] name = "RecommendationItem" ->
         [paper_id |-> "paper_id", title |-> "title", year |-> "year",
          citations |-> "count", impact_score |-> "impact", similarity_score |-> "ratio",
          similarity_breakdown |-> "opt_breakdown", matched_topics |-> "opt_strings",
          topic_match_count |-> "opt_number", relevance_score |-> "opt_number",
          community |-> "opt_number", pagerank |-> "opt_number",
          betweenness |-> "opt_number", personalized_score |-> "opt_number"]
    [] name = "PaperRecommendationsResponse" ->
         [recommendations |-> "items_rec", total |-> "count", cached |-> "bool",
          cache_ttl_seconds |-> "opt_ttl", user_session_id |-> "opt_string",
          viewing_history_count |-> "opt_number"]
    [] name = "PaperDetailItem" ->
         [paper_id |-> "paper_id", title |-> "title", year |-> "year_nullable",
          citations |-> "count", impact_score |-> "impact_nullable",
          abstract |-> "nullable_string", doi |-> "nullable_string",
          community |-> "nullable_number", topics |-> "strings"]
    [] name = "CommunityListItem" ->
         [id |-> "int", paper_count |-> "count", avg_impact |-> "nullable_number",
          top_topics |-> "strings"]
    [] name = "CommunitiesResponse" ->
         [communities |-> "items_community", total |-> "count"]
    [] name = "TrendingPaperItem" ->
         [paper_id |-> "paper_id", title |-> "title", year |-> "year",
          citations |-> "count", impact_score |-> "impact_nullable",
          pagerank |-> "nullable_number", community |-> "opt_number"]
    [] name = "TrendingPapersResponse" ->
         [community_id |-> "int", community_label |-> "nullable_string",
          trending_papers |-> "items_trending", total |-> "count"]
    [] name = "TopicDistributionItem" ->
         [name |-> "string", value |-> "count", paper_count |-> "count"]
    [] name = "CommunityAnalyticsResponse" ->
         [network_density |-> "ratio", centrality_mode |-> "string",
          avg_pagerank |-> "number", bridging_nodes_percent |-> "ratio",
          growth_rate |-> "number", topic_distribution |-> "items_topic",
          total_papers |-> "count"]
    [] name = "CitationNetwork" ->
         [papers |-> "items_netpaper", citations |-> "items_edge"]
    [] name = "DatabaseStats" ->
         [total_papers |-> "number", total_communities |-> "number",
          total_citations |-> "number", total_authors |-> "number",
          total_topics |-> "number", papers_with_communities |-> "number"]

Samples(kind) == Good(kind) \cup Bad(kind)

BaseObject(name) ==
  JObj([fld \in DOMAIN FieldKinds(name) |->
         CHOOSE v \in Good(FieldKinds(name)[fld]) : TRUE])

RECURSIVE Variants(_, _)
Variants(name, depth) ==
  IF depth = 0 THEN {BaseObject(name)}
  ELSE LET prev == Variants(name, depth - 1)
       IN prev \cup
          UNION {UNION {{WithField(o, fld, v) : v \in Samples(FieldKinds(name)[fld])}
                        : fld \in DOMAIN FieldKinds(name)} : o \in prev}

SchemaInit ==
  /\ schemaName \in ResponseSchemas
  /\ candidate \in Variants(schemaName, MaxVaried)
  /\ parseResult = "pending"
  /\ IdleExcept("schema")

\* Schema.parse(response.data)
ParseCandidate ==
  /\ parseResult = "pending"
  /\ parseResult' = IF SchemaParse(schemaName, candidate) THEN "ok" ELSE "rejected"
  /\ UNCHANGED <<schemaName, candidate>>
  /\ FrameExcept("schema")

SchemaNext == ParseCandidate

SpecSchema == SchemaInit /\ [][SchemaNext]_vars

SatisfiesAll(name, o) ==
  \A fld \in DOMAIN FieldKinds(name) : o.f[fld] \in Good(FieldKinds(name)[fld])

\* C2: for every response schema, a candidate all of whose fields satisfy
\* their declared constraints parses, and a candidate with a field outside
\* its constraint (paper_id "X123", impact_score 150, a ratio above 1, a
\* year outside [1900, 2100], a negative or fractional count) is rejected.
SchemaBoundary ==
  parseResult # "pending" =>
    (parseResult = "ok" <=> SatisfiesAll(schemaName, candidate))

\* the claim's own example: a recommendation item with impact_score 150, all
\* other fields good, has been rejected
SchemaBoundaryWitness ==
  /\ schemaName = "RecommendationItem"
  /\ candidate = WithField(BaseObject("RecommendationItem"), "impact_score", JInt(150))
  /\ parseResult = "rejected"

\* C17: a recommendation item without similarity_score whose other fields
\* are all valid is accepted by validation; similarity_score is constrained
\* to [0, 1] only when it is present.
SimilarityScoreOptional ==
  (/\ schemaName = "RecommendationItem"
   /\ parseResult # "pending"
   /\ candidate.f.similarity_score = JUndef
   /\ \A fld \in DOMAIN FieldKinds(schemaName) \ {"similarity_score"} :
        candidate.f[fld] \in Good(FieldKinds(schemaName)[fld]))
    => parseResult = "ok"

(***************************************************************************)
(* API functions: each read operation of the client issues one HTTP        *)
(* request and hands response.data, parsed or not, to the hook that called *)
(* it.                                                                     *)
(***************************************************************************)
\* CitationNetworkSchema of usePapers.ts
CitationNetworkSchema(o) ==
  /\ o.k = "obj"
  /\ o.f.papers.k = "items"
  /\ \A i \in DOMAIN o.f.papers.f :
       LET q == o.f.papers.f[i] IN
         /\ q.k = "obj"
         /\ ZString(q.f.paper_id)
         /\ ZString(q.f.title)
         /\ ZNullable(q.f.year, ZNumber(q.f.year))
         /\ ZNumber(q.f.citations)
         /\ ZNullable(q.f.impact_score, ZNumber(q.f.impact_score))
         /\ ZNullable(q.f.community, ZNumber(q.f.community))
         /\ ZNullable(q.f.x, ZNumber(q.f.x))
         /\ ZNullable(q.f.y, ZNumber(q.f.y))
  /\ o.f.citations.k = "items"
  /\ \A i \in DOMAIN o.f.citations.f :
       LET c == o.f.citations.f[i] IN
         c.k = "obj" /\ ZString(c.f.source) /\ ZString(c.f.target)

\* z.array(RecommendationItemSchema) of usePapers
RecommendationItemArray(v) ==
  /\ v.k = "items"
  /\ \A i \in DOMAIN v.f : RecommendationItemSchema(v.f[i])

\* interface DatabaseStats: six numeric totals
DatabaseStats(o) ==
  /\ o.k = "obj"
  /\ \A fld \in DOMAIN o.f : ZNumber(o.f[fld])

ApiOps ==
  {"getPaperDetail", "getPaperRecommendations", "queryRecommendations", "usePapers",
   "usePaperCitationNetwork", "getCommunities", "getCommunityTrending",
   "getPersonalizedFeed", "getDatabaseStats"}

\* the schema getPersonalizedFeed parses its response with
GetPersonalizedFeedSchema == "PaperRecommendationsResponse"

\* the declared shape of each operation's response body
ResponseShape(op) ==
  CASE op = "getPaperDetail" -> "PaperDetailItem"
    [] op = "getPaperRecommendations" -> "PaperRecommendationsResponse"
    [] op = "queryRecommendations" -> "PaperRecommendationsResponse"
    [] op = "usePapers" -> "PaperRecommendationsResponse"
    [] op = "usePaperCitationNetwork" -> "CitationNetwork"
    [] op = "getCommunities" -> "CommunitiesResponse"
    [] op = "getCommunityTrending" -> "PaperRecommendationsResponse"
    [] op = "getPersonalizedFeed" -> GetPersonalizedFeedSchema
    [] op = "getDatabaseStats" -> "DatabaseStats"

\* the part of response.data the operation returns
ReturnedPart(op, body) ==
  IF op = "usePapers" THEN body.f.recommendations ELSE body

\* whether a value has the shape the operation declares for what it returns
HasDeclaredShape(op, v) ==
  CASE op = "usePapers" -> RecommendationItemArray(v)
    [] op = "usePaperCitationNetwork" -> CitationNetworkSchema(v)
    [] op = "getDatabaseStats" -> DatabaseStats(v)
    [] OTHER -> SchemaParse(ResponseShape(op), v)

\* the operation's parse step: TRUE when it returns, FALSE when it throws;
\* getDatabaseStats returns response.data as it is
ParseSucceeds(op, body) ==
  IF op = "getDatabaseStats" THEN TRUE
  ELSE HasDeclaredShape(op, ReturnedPart(op, body))

\* the bodies a response to the operation may carry
ResponseBodies(op) ==
  IF op = "none" THEN {} ELSE Variants(ResponseShape(op), MaxVaried)

ApiInit ==
  /\ apiOp = "none"
  /\ apiState = "idle"
  /\ apiBody = <<>>
  /\ apiValue = <<>>
  /\ IdleExcept("api")

\* a hook's queryFn calls the operation, which awaits apiClient.get / post
ApiCall(op) ==
  /\ apiState = "idle"
  /\ apiOp' = op
  /\ apiState' = "requested"
  /\ UNCHANGED <<apiBody, apiValue>>
  /\ FrameExcept("api")

\* the HTTP response arrives with some body
ApiRespond(body) ==
  /\ apiState = "requested"
  /\ apiBody' = body
  /\ apiState' = "responded"
  /\ UNCHANGED <<apiOp, apiValue>>
  /\ FrameExcept("api")

\* the request fails (network error, timeout, error status): the await throws
ApiNetworkError ==
  /\ apiState = "requested"
  /\ apiState' = "threw"
  /\ UNCHANGED <<apiOp, apiBody, apiValue>>
  /\ FrameExcept("api")

\* the rest of the operation: parse (or not) and return
ApiFinish ==
  /\ apiState = "responded"
  /\ IF ParseSucceeds(apiOp, apiBody)
       THEN apiState' = "returned" /\ apiValue' = ReturnedPart(apiOp, apiBody)
       ELSE apiState' = "threw" /\ UNCHANGED apiValue
  /\ UNCHANGED <<apiOp, apiBody>>
  /\ FrameExcept("api")

ApiNext ==
  \/ \E op \in ApiOps : ApiCall(op)
  \/ \E body \in ResponseBodies(apiOp) : ApiRespond(body)
  \/ ApiNetworkError
  \/ ApiFinish

SpecApi == ApiInit /\ [][ApiNext]_vars

\* C1 (as claimed): whatever a read operation returns to its hook has passed
\* the parse against the operation's declared response shape; a body that
\* does not have that shape makes the operation fail.
ResponseAlwaysValidated ==
  apiState = "returned" => HasDeclaredShape(apiOp, apiValue)

(***************************************************************************)
(* Query hooks: useQuery entries of the shared query client, the feed hook *)
(* and the view-tracking mutation.                                         *)
(***************************************************************************)
MaxRequests == 3
MaxClock == 5
MaxObservers == 2

\* staleTime: 5 * 60 * 1000 ms, in minutes
FeedStaleTime == 5

\* staleTime of the hook that owns the key (useFeed: five minutes; a hook
\* without the option: the library default, zero)
StaleTimeOf(k) == IF k[1] = "feed" THEN FeedStaleTime ELSE 0

\* invalidateQueries({ queryKey: filter }) selects the keys that start with
\* the filter
MatchesKey(filter, k) ==
  Len(filter) <= Len(k) /\ SubSeq(k, 1, Len(filter)) = filter

\* an entry is stale when invalidated, without data, or older than staleTime
IsStale(e, k, now) ==
  e.invalidated \/ e.data = 0 \/ now - e.updatedAt >= StaleTimeOf(k)

\* a mounting hook asks for a fetch when the entry has no data or is stale
ShouldFetchOnMount(e, k, now) == e.data = 0 \/ IsStale(e, k, now)

\* a fetch of an entry calls the query function only when no request is
\* awaited, or when the caller cancels the running refetch of an entry that
\* already holds data (the default of invalidateQueries); otherwise the
\* caller joins the request in flight
StartsRequestAlways(e, cancelRefetch) == TRUE
StartsRequest(e, cancelRefetch) ==
  e.fetching = 0 \/ (cancelRefetch /\ e.data # 0)

\* the hook instances mounted at the moment, over all keys
RECURSIVE ObserversUpTo(_)
ObserversUpTo(i) ==
  IF i = 0 THEN 0 ELSE cache[KeySeq[i]].observers + ObserversUpTo(i - 1)
TotalObservers == ObserversUpTo(Len(KeySeq))

CacheInit ==
  /\ CacheIdle
  /\ IdleExcept("cache")

\* a component using the hook with key k mounts
Mount(k) ==
  LET e == cache[k]
      fetches == ShouldFetchOnMount(e, k, clock) /\ StartsRequest(e, FALSE)
      id == reqCount + 1
  IN /\ TotalObservers < MaxObservers
     /\ fetches => reqCount < MaxRequests
     /\ cache' = [cache EXCEPT ![k] =
                    [e EXCEPT !.exists = TRUE, !.observers = @ + 1,
                              !.fetching = IF fetches THEN id ELSE @]]
     /\ wire' = IF fetches THEN wire \cup {[id |-> id, key |-> k]} ELSE wire
     /\ reqCount' = IF fetches THEN id ELSE reqCount
     /\ owed' = [owed EXCEPT ![k] = FALSE]
     /\ UNCHANGED <<clock, trackState>>
     /\ FrameExcept("cache")

\* a component using the hook unmounts; the query function does not consume
\* the abort signal, so a request in flight goes on
Unmount(k) ==
  /\ cache[k].observers > 0
  /\ cache' = [cache EXCEPT ![k].observers = @ - 1]
  /\ UNCHANGED <<wire, reqCount, clock, trackState, owed>>
  /\ FrameExcept("cache")

\* the answer to request r arrives: the entry takes it only if r is the
\* request the entry is waiting for; a superseded request is ignored
Respond(r, ok) ==
  LET e == cache[r.key]
  IN /\ r \in wire
     /\ wire' = wire \ {r}
     /\ cache' = IF e.fetching # r.id THEN cache
                 ELSE IF ok
                   THEN [cache EXCEPT ![r.key] =
                           [e EXCEPT !.data = r.id, !.updatedAt = clock,
                                     !.invalidated = FALSE, !.fetching = 0]]
                   ELSE [cache EXCEPT ![r.key].fetching = 0]
     /\ UNCHANGED <<reqCount, clock, trackState, owed>>
     /\ FrameExcept("cache")

\* time passes: almost a staleness window, or a whole one
Advance(d) ==
  /\ clock + d <= MaxClock
  /\ clock' = clock + d
  /\ UNCHANGED <<cache, wire, reqCount, trackState, owed>>
  /\ FrameExcept("cache")

\* trackView({ paperId }): the POST is sent
TrackStart ==
  /\ trackState # "pending"
  /\ trackState' = "pending"
  /\ UNCHANGED <<cache, wire, reqCount, clock, owed>>
  /\ FrameExcept("cache")

\* the entries invalidateQueries({ queryKey: ['feed'] }) marks, and those it
\* refetches with a new request (the ones in use)
Invalidated == {k \in CacheKeys : cache[k].exists /\ MatchesKey(<<"feed">>, k)}
Refetched ==
  {k \in Invalidated : cache[k].observers > 0 /\ StartsRequest(cache[k], TRUE)}
NewRequestId(k) ==
  reqCount + Cardinality({j \in Refetched : KeyIndex(j) <= KeyIndex(k)})

\* the POST succeeded: onSuccess invalidates the feed queries
TrackSuccess ==
  /\ trackState = "pending"
  /\ reqCount + Cardinality(Refetched) <= MaxRequests
  /\ trackState' = "success"
  /\ cache' = [k \in CacheKeys |->
                 IF k \in Invalidated
                   THEN [cache[k] EXCEPT !.invalidated = TRUE,
                           !.fetching = IF k \in Refetched
                                          THEN NewRequestId(k) ELSE @]
                   ELSE cache[k]]
  /\ wire' = wire \cup {[id |-> NewRequestId(k), key |-> k] : k \in Refetched}
  /\ reqCount' = reqCount + Cardinality(Refetched)
  /\ owed' = [k \in CacheKeys |->
                IF k \in Invalidated
                  THEN cache[k].data # 0 /\ k \notin Refetched
                  ELSE owed[k]]
  /\ UNCHANGED clock
  /\ FrameExcept("cache")

\* the POST failed: no onSuccess
TrackFail ==
  /\ trackState = "pending"
  /\ trackState' = "error"
  /\ UNCHANGED <<cache, wire, reqCount, clock, owed>>
  /\ FrameExcept("cache")

CacheNext ==
  \/ \E k \in CacheKeys : Mount(k)
  \/ \E k \in CacheKeys : Unmount(k)
  \/ \E r \in wire, ok \in BOOLEAN : Respond(r, ok)
  \/ \E d \in {FeedStaleTime - 1, FeedStaleTime} : Advance(d)
  \/ TrackStart
  \/ TrackSuccess
  \/ TrackFail

SpecCache == CacheInit /\ [][CacheNext]_vars

\* the requests on the wire for key k
InFlight(k) == {r \in wire : r.key = k}

\* C4 (as claimed): a successful view-tracking write invalidates every cached
\* feed entry and touches no other entry, the next read of an invalidated
\* feed key issues a new request even inside the staleness window, and a
\* failed write leaves the cache unchanged.
FeedInvalidationContract ==
  [][ /\ (trackState = "pending" /\ trackState' = "success") =>
           \A k \in CacheKeys :
             IF cache[k].exists /\ k[1] = "feed"
               THEN cache'[k].invalidated
               ELSE cache'[k] = cache[k]
      /\ \A k \in CacheKeys :
           (cache'[k].observers > cache[k].observers /\ owed[k]) =>
             \E r \in wire' \ wire : r.key = k
      /\ (trackState = "pending" /\ trackState' = "error") =>
           cache' = cache /\ wire' = wire
    ]_vars

\* C10 (as claimed): at any moment at most one request is in flight per
\* cache key.
AtMostOneInFlight ==
  \A k \in CacheKeys : Cardinality(InFlight(k)) <= 1

\* C10 (amended): an entry waits for at most one request, and that request is
\* in flight; a hook that mounts while its key waits for a request issues no
\* second request and shares the awaited one, whose answer becomes the data
\* of the entry that all its mounted hooks read; a key that is not a feed key
\* has at most one request in flight; a request in flight stops being the
\* awaited one (its answer is then ignored) only when a view-tracking write
\* succeeds while the feed entry is mounted, holds data and is being
\* refetched, and a new request replaces it.
SharedRequest ==
  /\ [](\A k \in CacheKeys :
          /\ Cardinality({r \in InFlight(k) : r.id = cache[k].fetching})
               = IF cache[k].fetching = 0 THEN 0 ELSE 1
          /\ k[1] # "feed" => Cardinality(InFlight(k)) <= 1)
  /\ [][\A k \in CacheKeys :
          /\ (cache'[k].observers > cache[k].observers /\ cache[k].fetching # 0)
               => wire' = wire /\ cache'[k].fetching = cache[k].fetching
          /\ \A r \in InFlight(k) \ wire' :
               r.id = cache[k].fetching =>
                 /\ cache'[k].fetching = 0
                 /\ cache'[k].data \in {r.id, cache[k].data}
                 /\ cache'[k].observers = cache[k].observers
          /\ \A r \in InFlight(k) \cap wire' :
               (r.id = cache[k].fetching /\ cache'[k].fetching # r.id)
                 => /\ trackState = "pending" /\ trackState' = "success"
                    /\ k[1] = "feed"
                    /\ cache[k].observers > 0
                    /\ cache[k].data # 0
                    /\ cache'[k].fetching \notin {0, r.id}
       ]_vars

\* two hooks of the key that nothing invalidates are mounted and wait for
\* the only request issued so far: the second one joined it
SharedRequestWitness ==
  /\ reqCount = 1
  /\ \E k \in CacheKeys :
       /\ k[1] # "feed"
       /\ cache[k].observers = 2
       /\ cache[k].fetching = 1
       /\ InFlight(k) = {[id |-> 1, key |-> k]}

(***************************************************************************)
(* SearchBar: the debounced search input of the top navigation.            *)
(***************************************************************************)
MaxKeystrokes == 3
MaxTextLen == 2

\* useDebounce(query, 300)
DebounceDelay == 300
\* the granularity of time in the model, in ms
TickMs == 100

\* the texts of the model: character sequences over a letter and a blank
Chars == {"a", " "}
Texts == UNION {[1..n -> Chars] : n \in 0..MaxTextLen}

\* String.prototype.trim
RECURSIVE TrimStart(_)
TrimStart(t) ==
  IF t # <<>> /\ Head(t) = " " THEN TrimStart(Tail(t)) ELSE t
RECURSIVE TrimEnd(_)
TrimEnd(t) ==
  IF t # <<>> /\ t[Len(t)] = " " THEN TrimEnd(SubSeq(t, 1, Len(t) - 1)) ELSE t
Trim(t) == TrimEnd(TrimStart(t))

\* encodeURIComponent
RECURSIVE EncodeURIComponent(_)
EncodeURIComponent(t) ==
  IF t = <<>> THEN ""
  ELSE (IF Head(t) = " " THEN "%20" ELSE Head(t)) \o EncodeURIComponent(Tail(t))

SearchUrl(t) == "/search?q=" \o EncodeURIComponent(t)

\* the effect on [debouncedQuery, router]: it runs on mount and whenever the
\* debounced text is a different string, and pushes when the trimmed text is
\* not empty
EffectRuns(before, after) == before # after
Pushes(t) == Trim(t) # <<>>

SearchBarInit ==
  /\ SearchBarIdle
  /\ IdleExcept("searchbar")

\* the layout mounts the bar; q0 is the q parameter of the URL ('' if none)
SearchBarMount(q0) ==
  /\ ~sbMounted
  /\ sbMounted' = TRUE
  /\ query' = q0
  /\ debouncedQuery' = q0
  /\ timer' = -1
  /\ navs' = IF Pushes(q0) THEN <<SearchUrl(q0)>> ELSE <<>>
  /\ settled' = <<q0>>
  /\ UNCHANGED keystrokes
  /\ FrameExcept("searchbar")

\* onChange: the input now holds t; the debounce timer is (re)armed
Type(t) ==
  /\ sbMounted
  /\ keystrokes < MaxKeystrokes
  /\ t # query
  /\ query' = t
  /\ timer' = DebounceDelay
  /\ keystrokes' = keystrokes + 1
  /\ UNCHANGED <<sbMounted, debouncedQuery, navs, settled>>
  /\ FrameExcept("searchbar")

\* TickMs pass without a keystroke (the timer fires as soon as it is due)
Tick ==
  /\ timer > 0
  /\ timer' = IF timer > TickMs THEN timer - TickMs ELSE 0
  /\ UNCHANGED <<sbMounted, query, debouncedQuery, navs, settled, keystrokes>>
  /\ FrameExcept("searchbar")

\* the timer fires: the debounced text becomes the text of the input, and the
\* effect runs if that is a change
DebounceFire ==
  /\ timer = 0
  /\ timer' = -1
  /\ debouncedQuery' = query
  /\ settled' = Append(settled, query)
  /\ navs' = IF EffectRuns(debouncedQuery, query) /\ Pushes(query)
               THEN Append(navs, SearchUrl(query)) ELSE navs
  /\ UNCHANGED <<sbMounted, query, keystrokes>>
  /\ FrameExcept("searchbar")

SearchBarNext ==
  \/ \E q0 \in Texts : SearchBarMount(q0)
  \/ \E t \in Texts : Type(t)
  \/ Tick
  \/ DebounceFire

SpecSearchBar == SearchBarInit /\ [][SearchBarNext]_vars

\* the navigations that one push per settled text with a non-empty trimmed
\* form amounts to
RECURSIVE OnePushEach(_)
OnePushEach(ts) ==
  IF ts = <<>> THEN <<>>
  ELSE IF Pushes(Head(ts)) THEN <<SearchUrl(Head(ts))>> \o OnePushEach(Tail(ts))
  ELSE OnePushEach(Tail(ts))

\* C5 (as claimed): the navigations issued are exactly one per text that
\* stayed unchanged for the debounce delay and has a non-empty trimmed form,
\* in order; a text replaced before the delay passed gets none.
OneNavigationPerSettledValue ==
  navs = OnePushEach(settled)

(***************************************************************************)
(* Community pages: the communities list and the community detail page     *)
(* with its year toggle and its bridging-papers section.                   *)
(***************************************************************************)
MaxCommunities == 3
MaxPapers == 3
MaxClicks == 2

\* the buttons of the year toggle
YEAR_OPTIONS_Stale ==
  << [label |-> "All Time", value |-> JsNull],
     [label |-> "Last 5Y", value |-> JsNum(2019)],
     [label |-> "Last 3Y", value |-> JsNum(2022)],
     [label |-> "Last 2Y", value |-> JsNum(2023)] >>
YEAR_OPTIONS ==
  << [label |-> "All Time", value |-> JsNull],
     [label |-> "Last 5Y", value |-> JsNum(2020)],
     [label |-> "Last 3Y", value |-> JsNum(2022)],
     [label |-> "Last 2Y", value |-> JsNum(2023)] >>

\* paper counts of the communities the service may report
PaperCounts == {1, 2, 5, 10}
CommunityLists == UNION {[1..n -> PaperCounts] : n \in 0..MaxCommunities}

\* centrality values, in hundredths: 0.05 and 0.20
Centralities == {5, 20}
\* a trending paper as the service sends it: pagerank is number | null
ServedPapers ==
  [pagerank : {JsNull} \cup {JsNum(x) : x \in Centralities},
   betweenness : {JsNull} \cup {JsNum(x) : x \in {20}}]
TrendingLists == UNION {[1..n -> ServedPapers] : n \in 0..MaxPapers}

\* TrendingPaperItemSchema keeps pagerank and has no betweenness field: the
\* parse drops it; idx is the position in the trending order
ParsedPaper(ps, i) == [idx |-> i, pagerank |-> ps[i].pagerank]
ParsedTrending(ps) == [i \in 1..Len(ps) |-> ParsedPaper(ps, i)]

\* the bridging threshold 0.05, in hundredths
BridgingThreshold == 5

\* (p.pagerank || 0) > 0.05
IsBridging(p) ==
  (IF p.pagerank.isNull THEN 0 ELSE p.pagerank.v) > BridgingThreshold

\* .slice(0, 2)
Slice02(xs) == SubSeq(xs, 1, IF Len(xs) < 2 THEN Len(xs) ELSE 2)

\* trendingData?.trending_papers.filter(...).slice(0, 2) || []
BridgingOf(data) ==
  IF data.loaded THEN Slice02(SelectSeq(data.items, IsBridging)) ELSE <<>>

\* data?.communities.map(community => <CommunityCard />)
CardsOf(data) == IF data.loaded THEN data.items ELSE <<>>

CommunityInit ==
  /\ CommunityIdle
  /\ IdleExcept("community")

\* the reader opens the list page or a detail page: the page mounts with its
\* initial state
Navigate(target) ==
  /\ page # target
  /\ page' = target
  /\ listData' = Loading
  /\ cards' = CardsOf(Loading)
  /\ minYear' = JsNull
  /\ emitted' = <<>>
  /\ trendingData' = Loading
  /\ served' = <<>>
  /\ bridging' = BridgingOf(Loading)
  /\ FrameExcept("community")

\* the communities arrive and the list page renders them
CommunitiesLoaded(cs) ==
  /\ page = "list"
  /\ listData = Loading
  /\ listData' = Loaded(cs)
  /\ cards' = CardsOf(Loaded(cs))
  /\ UNCHANGED <<page, minYear, emitted, trendingData, served, bridging>>
  /\ FrameExcept("community")

\* the trending papers for the current year floor arrive and the detail page
\* renders them
TrendingLoaded(ps) ==
  /\ page = "detail"
  /\ trendingData = Loading
  /\ served' = ps
  /\ trendingData' = Loaded(ParsedTrending(ps))
  /\ bridging' = BridgingOf(Loaded(ParsedTrending(ps)))
  /\ UNCHANGED <<page, listData, cards, minYear, emitted>>
  /\ FrameExcept("community")

\* a button of the year toggle is clicked: onChange(option.value) sets the
\* floor, which is part of the trending query key
ClickYear(i) ==
  /\ page = "detail"
  /\ Len(emitted) < MaxClicks
  /\ emitted' = Append(emitted, YEAR_OPTIONS[i].value)
  /\ minYear' = YEAR_OPTIONS[i].value
  /\ trendingData' = IF minYear' = minYear THEN trendingData ELSE Loading
  /\ served' = IF minYear' = minYear THEN served ELSE <<>>
  /\ bridging' = BridgingOf(trendingData')
  /\ UNCHANGED <<page, listData, cards>>
  /\ FrameExcept("community")

CommunityNext ==
  \/ \E target \in {"list", "detail"} : Navigate(target)
  \/ \E cs \in CommunityLists : CommunitiesLoaded(cs)
  \/ \E ps \in TrendingLists : TrendingLoaded(ps)
  \/ \E i \in 1..Len(YEAR_OPTIONS) : ClickYear(i)

SpecCommunity == CommunityInit /\ [][CommunityNext]_vars

\* the positions, in trending order, of the served papers whose betweenness
\* exceeds the threshold
RECURSIVE HighBetweenness(_, _)
HighBetweenness(ps, i) ==
  IF i > Len(ps) THEN <<>>
  ELSE IF ~ps[i].betweenness.isNull /\ ps[i].betweenness.v > 5
    THEN <<i>> \o HighBetweenness(ps, i + 1)
    ELSE HighBetweenness(ps, i + 1)

\* C6 (as claimed): once the trending papers are loaded, the bridging section
\* shows exactly the first two trending papers whose betweenness exceeds
\* 0.05, whatever their pagerank.
BridgingByBetweenness ==
  trendingData.loaded =>
    [i \in 1..Len(bridging) |-> bridging[i].idx]
      = Slice02(HighBetweenness(served, 1))

\* C7 (as claimed): once the communities are loaded, the cards shown are
\* exactly the communities with at least 3 papers (the default of the
\* minimum-papers filter, which nothing on the page can change).
CardsRespectMinimumPapers ==
  listData.loaded =>
    cards = SelectSeq(listData.items, LAMBDA c : c >= 3)

\* C8: every value the year toggle has emitted is null, 2025 - 5, 2025 - 3 or
\* 2025 - 2, and the floor of the page is the last one emitted.
YearToggleEmitsFixedSet ==
  /\ \A i \in 1..Len(emitted) :
       emitted[i] \in {JsNull, JsNum(2025 - 5), JsNum(2025 - 3), JsNum(2025 - 2)}
  /\ emitted # <<>> => minYear = emitted[Len(emitted)]

\* the toggle was clicked twice: Last 5Y, then All Time
YearToggleWitness ==
  emitted = <<JsNum(2020), JsNull>>

(***************************************************************************)
(* Search page, in its two revisions: SearchPage (filters in a sidebar     *)
(* component, request issued from useMemo) and SearchContent (topic entry  *)
(* and limit on the page, request issued from an effect).                  *)
(***************************************************************************)
MaxSearchEvents == 3

Revisions == {"SearchPage", "SearchContent"}
\* values of the q and topics parameters of the URL ('' when absent)
QueryParams == {"", "ai"}
TopicParams == {"", "AI"}
\* the topics the reader may enter, and the two sample topics
TopicNames == {"ai", "AI", "Machine Learning"}
\* positions of the two-handle year slider
YearRanges == {<<2015, 2025>>, <<2015, 2024>>, <<2000, 2020>>}
Limits == {20, 50, 100}
Impacts == {0, 50}

\* useState initial values
InitialTopics(rev, q, t) ==
  IF rev = "SearchPage" THEN (IF t # "" THEN {t} ELSE {})
  ELSE (IF q # "" THEN {q} ELSE {})
DefaultYearRange(rev) ==
  IF rev = "SearchPage" THEN <<2015, 2025>> ELSE <<2015, 2024>>

\* SearchPage: if (topics.length > 0 || initialQuery);
\* SearchContent: if (topics.length > 0) / if (topics.length === 0) return
ShouldSearchTopicsOnly(rev, ts, q) == ts # {}
ShouldSearch(rev, ts, q) ==
  IF rev = "SearchPage" THEN ts # {} \/ q # "" ELSE ts # {}

\* the request passed to search(...)
SearchRequest(rev, ts, q, yr, lim) ==
  [topics |-> IF rev = "SearchPage" /\ ts = {} THEN {q} ELSE ts,
   year_min |-> yr[1], year_max |-> yr[2],
   limit |-> IF rev = "SearchPage" THEN 20 ELSE lim]

\* the render after a state change that is among the dependencies of the
\* memo (SearchPage) or of the effect (SearchContent): search is called when
\* the condition holds
Rerun(rev, ts, q, yr, lim) ==
  IF ShouldSearch(rev, ts, q)
    THEN /\ searches' = searches + 1
         /\ lastSearch' = SearchRequest(rev, ts, q, yr, lim)
    ELSE UNCHANGED <<searches, lastSearch>>

SearchInit ==
  /\ SearchIdle
  /\ IdleExcept("search")

\* the page mounts with the URL parameters q and t
SearchMount(rev, q, t) ==
  /\ revision = "none"
  /\ revision' = rev
  /\ initialQuery' = q
  /\ topics' = InitialTopics(rev, q, t)
  /\ yearRange' = DefaultYearRange(rev)
  /\ limit' = 20
  /\ minImpact' = 0
  /\ Rerun(rev, topics', q, yearRange', limit')
  /\ UNCHANGED searchEvents
  /\ FrameExcept("search")

UserEvent ==
  /\ revision # "none"
  /\ searchEvents < MaxSearchEvents
  /\ searchEvents' = searchEvents + 1

\* SearchContent: Enter in the topic input adds the topic
AddTopic(x) ==
  /\ UserEvent
  /\ revision = "SearchContent"
  /\ topics' = topics \cup {x}
  /\ Rerun(revision, topics', initialQuery, yearRange, limit)
  /\ UNCHANGED <<revision, initialQuery, yearRange, limit, minImpact>>
  /\ FrameExcept("search")

\* the remove button of a topic chip
RemoveTopic(x) ==
  /\ UserEvent
  /\ x \in topics
  /\ topics' = topics \ {x}
  /\ Rerun(revision, topics', initialQuery, yearRange, limit)
  /\ UNCHANGED <<revision, initialQuery, yearRange, limit, minImpact>>
  /\ FrameExcept("search")

\* the year slider moves (a new array each time, also for equal values)
SetYearRange(yr) ==
  /\ UserEvent
  /\ yearRange' = yr
  /\ Rerun(revision, topics, initialQuery, yr, limit)
  /\ UNCHANGED <<revision, initialQuery, topics, limit, minImpact>>
  /\ FrameExcept("search")

\* SearchContent: a limit button; the same value again changes nothing
SetLimit(lim) ==
  /\ UserEvent
  /\ revision = "SearchContent"
  /\ limit' = lim
  /\ IF lim # limit
       THEN Rerun(revision, topics, initialQuery, yearRange, lim)
       ELSE UNCHANGED <<searches, lastSearch>>
  /\ UNCHANGED <<revision, initialQuery, topics, yearRange, minImpact>>
  /\ FrameExcept("search")

\* SearchPage: the impact slider; minImpact is not a dependency of the memo
SetMinImpact(m) ==
  /\ UserEvent
  /\ revision = "SearchPage"
  /\ minImpact' = m
  /\ UNCHANGED <<revision, initialQuery, topics, yearRange, limit, searches,
                 lastSearch>>
  /\ FrameExcept("search")

\* SearchContent: the search button calls handleSearch
ClickSearch ==
  /\ UserEvent
  /\ revision = "SearchContent"
  /\ Rerun(revision, topics, initialQuery, yearRange, limit)
  /\ UNCHANGED <<revision, initialQuery, topics, yearRange, limit, minImpact>>
  /\ FrameExcept("search")

\* SearchContent: the sample-topics button of the empty result view
SampleTopics ==
  /\ UserEvent
  /\ revision = "SearchContent"
  /\ topics' = {"Machine Learning", "AI"}
  /\ Rerun(revision, topics', initialQuery, yearRange, limit)
  /\ UNCHANGED <<revision, initialQuery, yearRange, limit, minImpact>>
  /\ FrameExcept("search")

\* reset all (SearchContent) / clear all (SearchPage handleClearFilters): the
\* three state updates are batched into one render
ResetAll ==
  /\ UserEvent
  /\ topics' = {}
  /\ yearRange' = DefaultYearRange(revision)
  /\ limit' = 20
  /\ minImpact' = 0
  /\ Rerun(revision, topics', initialQuery, yearRange', limit')
  /\ UNCHANGED <<revision, initialQuery>>
  /\ FrameExcept("search")

\* the URL gets another q while the page stays mounted (the search bar
\* navigates): initialQuery is a dependency of the memo of SearchPage only
ChangeQuery(q) ==
  /\ UserEvent
  /\ q # initialQuery
  /\ initialQuery' = q
  /\ IF revision = "SearchPage"
       THEN Rerun(revision, topics, q, yearRange, limit)
       ELSE UNCHANGED <<searches, lastSearch>>
  /\ UNCHANGED <<revision, topics, yearRange, limit, minImpact>>
  /\ FrameExcept("search")

SearchNext ==
  \/ \E rev \in Revisions, q \in QueryParams, t \in TopicParams :
       SearchMount(rev, q, t)
  \/ \E x \in TopicNames : AddTopic(x)
  \/ \E x \in TopicNames : RemoveTopic(x)
  \/ \E yr \in YearRanges : SetYearRange(yr)
  \/ \E lim \in Limits : SetLimit(lim)
  \/ \E m \in Impacts : SetMinImpact(m)
  \/ ClickSearch
  \/ SampleTopics
  \/ ResetAll
  \/ \E q \in QueryParams : ChangeQuery(q)

SpecSearch == SearchInit /\ [][SearchNext]_vars

\* a step of a mounted page that changes the topic set or the year range
FilterChange ==
  revision # "none" /\ (topics' # topics \/ yearRange' # yearRange)

\* C9 (as claimed): a change of the topic set or of the year range issues a
\* request if and only if the topic set is non-empty or the initial query is
\* present, and no step issues a request with zero topics and no initial
\* query.
SearchIffTopicsOrQuery ==
  [][ /\ FilterChange =>
           (searches' = searches + 1 <=> (topics' # {} \/ initialQuery' # ""))
      /\ searches' # searches => (topics' # {} \/ initialQuery' # "")
    ]_vars

\* C9 (amended): on SearchPage a change of the topic set or of the year range
\* issues a request if and only if the topic set is non-empty or the initial
\* query is present; on SearchContent, where the initial query only seeds the
\* topic set, if and only if the topic set is non-empty; on both, no step
\* issues a request with zero topics and no initial query, reset-all
\* included, and a request carries the topics (or the initial query in their
\* place) and the year range of the page.
SearchIffPerRevision ==
  [][ /\ (FilterChange /\ revision = "SearchPage") =>
           (searches' = searches + 1 <=> (topics' # {} \/ initialQuery' # ""))
      /\ (FilterChange /\ revision = "SearchContent") =>
           (searches' = searches + 1 <=> topics' # {})
      /\ searches' # searches =>
           /\ topics' # {} \/ initialQuery' # ""
           /\ lastSearch'.topics = IF topics' # {} THEN topics' ELSE {initialQuery'}
           /\ lastSearch'.year_min = yearRange'[1]
           /\ lastSearch'.year_max = yearRange'[2]
    ]_vars

\* SearchPage was opened with q and no topic, and a later change of the year
\* range has issued a second request carrying the query as its topic
SearchIffWitness ==
  /\ revision = "SearchPage"
  /\ topics = {}
  /\ initialQuery = "ai"
  /\ yearRange = <<2000, 2020>>
  /\ searches = 2
  /\ lastSearch = [topics |-> {"ai"}, year_min |-> 2000, year_max |-> 2020,
                   limit |-> 20]

(***************************************************************************)
(* Citation-network expansion pipeline: ExpansionOrchestrator.expand, the  *)
(* answers of the bibliographic API and the graph store.  A DOI is         *)
(* identified with the work it names.  The API is deterministic: the       *)
(* answer about a work is chosen when the work is first asked for and is   *)
(* the same ever after.                                                    *)
(***************************************************************************)
MaxCap == 3       \* the largest settings.max_papers tried
MaxSeeds == 1     \* the longest seed list tried
MaxRuns == 2      \* how many times the pipeline is run
MaxDepth == 2     \* settings.max_depth as configured
RefLimit == 50    \* referenced_works[:50]

SeqsUpTo(S, n) == UNION {[1..k -> S] : k \in 0..n}
SeedLists == SeqsUpTo(Works, MaxSeeds)

\* the referenced_works lists on record: any set of works, listed in the
\* order W1, W2, W3
WorkSeq == <<"W1", "W2", "W3">>
RefLists == {SelectSeq(WorkSeq, LAMBDA w : w \in S) : S \in SUBSET Works}

\* the authorships on record: W1 and W2 share their author
AuthorOf(w) == IF w = "W3" THEN "A2" ELSE "A1"

\* what the API can say about work w: it does not know it (404), the record
\* fails the mapper's should_include, or the record is valid
Answers(w) ==
  {[status |-> "missing", refs |-> <<>>, author |-> AuthorOf(w)],
   [status |-> "invalid", refs |-> WorkSeq, author |-> AuthorOf(w)]}
  \cup {[status |-> "ok", refs |-> r, author |-> AuthorOf(w)] : r \in RefLists}

\* get_work / get_work_by_doi: the answers the API may give now
GetWork(w) == IF works[w] = NotAsked THEN Answers(w) ELSE {works[w]}

\* MERGE (n {openalex_id: $id}): creates the node only when none matches
CreateNode(nodes, id) == [nodes EXCEPT ![id] = @ + 1]

MergeNode(nodes, id) ==
  IF nodes[id] = 0 THEN [nodes EXCEPT ![id] = 1] ELSE nodes

\* the condition of the BFS loop
LoopContinuesUncapped(q, v, n) == q # <<>>

LoopContinues(q, v, n) == q # <<>> /\ Cardinality(v) < n

\* self.queue.popleft(): the queue that is left
PopleftPeek(q) == q

Popleft(q) == Tail(q)

\* self.mapper.should_include(work): the record passes the mapper's
\* validity predicate (year in range, topic in the allow-list)
should_include_any(work) == TRUE

should_include(work) == work.status # "invalid"

\* the depth settings tried: no expansion beyond the seeds, and the
\* configured depth
Depths == {0, MaxDepth}

\* the neighbours of a paper at this depth are enqueued whatever the depth
WithinDepthAlways(depth, n) == TRUE

\* if depth < self.settings.max_depth
WithinDepth(depth, n) == depth < n

Take(s, n) == SubSeq(s, 1, IF Len(s) < n THEN Len(s) ELSE n)

\* _enqueue_neighbors: the pairs appended to the queue
Neighbors(refs, depth, v) ==
  LET cut == Take(refs, RefLimit)
  IN  SelectSeq([i \in 1..Len(cut) |-> <<cut[i], depth + 1>>],
                LAMBDA pair : pair[1] \notin v)

Store == [papers |-> paperNodes, authors |-> authorNodes, cites |-> citesEdges]

ExpansionInit ==
  /\ exPhase = "idle"
  /\ maxPapers \in 0..MaxCap
  /\ maxDepth \in Depths
  /\ seedDois \in SeedLists
  /\ seedsLeft = <<>>
  /\ queue = <<>>
  /\ visited = {}
  /\ works = [w \in Works |-> NotAsked]
  /\ paperNodes = EmptyStore.papers
  /\ authorNodes = EmptyStore.authors
  /\ citesEdges = EmptyStore.cites
  /\ linkLeft = {}
  /\ linkPasses = 0
  /\ runs = 0
  /\ afterFirst = EmptyStore
  /\ IdleExcept("expansion")

\* python -m graphlit: a new process builds its orchestrator and calls expand
Expand ==
  /\ exPhase = "idle" \/ (exPhase = "done" /\ runs < MaxRuns)
  /\ exPhase' = IF seedDois = <<>> THEN "traversal" ELSE "seeds"
  /\ seedsLeft' = seedDois
  /\ queue' = <<>>
  /\ visited' = {}
  /\ linkLeft' = {}
  /\ linkPasses' = 0
  /\ UNCHANGED <<maxDepth, maxPapers, works, paperNodes, authorNodes, citesEdges, runs,
                 afterFirst, seedDois>>
  /\ FrameExcept("expansion")

\* one turn of the seed loop: resolve the DOI, queue the work at depth 0
ResolveSeed ==
  /\ exPhase = "seeds"
  /\ seedsLeft # <<>>
  /\ \E work \in GetWork(Head(seedsLeft)) :
       /\ works' = [works EXCEPT ![Head(seedsLeft)] = work]
       /\ queue' = IF work.status # "missing"
                   THEN Append(queue, <<Head(seedsLeft), 0>>)
                   ELSE queue
  /\ seedsLeft' = Tail(seedsLeft)
  /\ exPhase' = IF Tail(seedsLeft) = <<>> THEN "traversal" ELSE "seeds"
  /\ UNCHANGED <<maxDepth, maxPapers, visited, paperNodes, authorNodes, citesEdges,
                 linkLeft, linkPasses, runs, afterFirst, seedDois>>
  /\ FrameExcept("expansion")

\* one turn of the BFS loop, _process_paper included
Iterate ==
  /\ exPhase = "traversal"
  /\ LoopContinues(queue, visited, maxPapers)
  /\ LET openalex_id == Head(queue)[1]
         depth == Head(queue)[2]
     IN  IF openalex_id \in visited
         THEN /\ queue' = Popleft(queue)
              /\ UNCHANGED <<visited, works, paperNodes, authorNodes>>
         ELSE \E work \in GetWork(openalex_id) :
                /\ works' = [works EXCEPT ![openalex_id] = work]
                /\ IF work.status = "missing" \/ ~should_include(work)
                   THEN /\ queue' = Popleft(queue)
                        /\ UNCHANGED <<visited, paperNodes, authorNodes>>
                   ELSE /\ paperNodes' = MergeNode(paperNodes, openalex_id)
                        /\ authorNodes' = MergeNode(authorNodes, work.author)
                        /\ queue' =
                             IF WithinDepth(depth, maxDepth)
                             THEN Popleft(queue)
                                    \o Neighbors(work.refs, depth, visited)
                             ELSE Popleft(queue)
                        /\ visited' = visited \cup {openalex_id}
  /\ UNCHANGED <<maxDepth, exPhase, maxPapers, seedsLeft, citesEdges, linkLeft,
                 linkPasses, runs, afterFirst, seedDois>>
  /\ FrameExcept("expansion")

\* the loop ends; the relationship pass starts over the visited papers
EndTraversal ==
  /\ exPhase = "traversal"
  /\ ~LoopContinues(queue, visited, maxPapers)
  /\ exPhase' = "linking"
  /\ linkLeft' = visited
  /\ linkPasses' = linkPasses + 1
  /\ UNCHANGED <<maxDepth, maxPapers, seedsLeft, queue, visited, works, paperNodes,
                 authorNodes, citesEdges, runs, afterFirst, seedDois>>
  /\ FrameExcept("expansion")

\* the CITES edges of one paper, to every one of its references
LinkEdgesUnchecked(edges, p, refs) ==
  [e \in Works \X Works |->
     IF e[1] = p /\ (\E i \in 1..Len(refs) : refs[i] = e[2])
     THEN MergeNode(edges, e)[e]
     ELSE edges[e]]

\* the CITES edges of one paper: its references that exist in the graph
LinkEdges(edges, p, refs) ==
  [e \in Works \X Works |->
     IF e[1] = p /\ (\E i \in 1..Len(refs) : refs[i] = e[2])
        /\ paperNodes[e[2]] > 0
     THEN MergeNode(edges, e)[e]
     ELSE edges[e]]

\* relationship pass, one visited paper: fetch its referenced_works again
LinkPaper ==
  /\ exPhase = "linking"
  /\ linkLeft # {}
  /\ LET p == CHOOSE w \in linkLeft : TRUE
     IN  /\ \E work \in GetWork(p) :
               citesEdges' = LinkEdges(citesEdges, p, work.refs)
         /\ linkLeft' = linkLeft \ {p}
  /\ UNCHANGED <<maxDepth, exPhase, maxPapers, seedsLeft, queue, visited, works,
                 paperNodes, authorNodes, linkPasses, runs, afterFirst,
                 seedDois>>
  /\ FrameExcept("expansion")

\* the relationship pass is complete: the run is done
FinishRun ==
  /\ exPhase = "linking"
  /\ linkLeft = {}
  /\ exPhase' = "done"
  /\ runs' = runs + 1
  /\ afterFirst' = IF runs = 0 THEN Store ELSE afterFirst
  /\ UNCHANGED <<maxDepth, maxPapers, seedsLeft, queue, visited, works, paperNodes,
                 authorNodes, citesEdges, linkLeft, linkPasses, seedDois>>
  /\ FrameExcept("expansion")

ExpansionNext ==
  \/ Expand
  \/ ResolveSeed
  \/ Iterate
  \/ EndTraversal
  \/ LinkPaper
  \/ FinishRun

SpecExpansion == ExpansionInit /\ [][ExpansionNext]_vars

\* C11: in every reachable state of the expansion traversal the number of
\* visited papers is at most the configured cap max_papers, whatever the
\* seeds, the citation graph and the cap (zero included).
VisitedWithinCap == Cardinality(visited) <= maxPapers

\* the cap stopped the loop: it is reached while the frontier still holds
\* papers that were never processed
VisitedWithinCapWitness ==
  /\ exPhase = "linking"
  /\ maxPapers > 0
  /\ Cardinality(visited) = maxPapers
  /\ \E i \in 1..Len(queue) : queue[i][1] \notin visited

\* the scheduler of the one coroutine runs it whenever it can take a step
SpecExpansionFair == SpecExpansion /\ WF_vars(ExpansionNext)

HasRef(a, b) == \E i \in 1..Len(works[a].refs) : works[a].refs[i] = b

IdempotentIngestion ==
  /\ \A w \in Works : paperNodes[w] <= 1
  /\ \A a \in Authors : authorNodes[a] <= 1
  /\ \A e \in Works \X Works : citesEdges[e] <= 1
  /\ (exPhase = "done" /\ runs >= 2) => Store = afterFirst

\* the second run is done on a store that holds two papers of one author
\* and a citation between them
IdempotentIngestionWitness ==
  /\ exPhase = "done"
  /\ runs = 2
  /\ linkPasses = 1
  /\ paperNodes["W1"] = 1 /\ paperNodes["W2"] = 1
  /\ authorNodes["A1"] = 1
  /\ citesEdges[<<"W1", "W2">>] = 1

(***************************************************************************)
(* Bibliographic API client: OpenAlexClient.get_work behind its            *)
(* AsyncLimiter(max_rate, time_period = 1.0).  Time advances in half       *)
(* seconds; the bucket of the limiter leaks max_rate / time_period units   *)
(* per second.  The orchestrator awaits one call after the other; how long *)
(* a call takes is up to the network.                                      *)
(***************************************************************************)
MaxLimClock == 4           \* half seconds the client is watched
rate_limit_per_second == 10
TicksPerPeriod == 2        \* time_period = 1.0 second, in half seconds

\* AsyncLimiter._leak over one half second
Leak(l) ==
  LET decrement == rate_limit_per_second \div TicksPerPeriod
  IN  IF l > decrement THEN l - decrement ELSE 0

\* AsyncLimiter.has_capacity(1)
HasCapacity(l) == l + 1 <= rate_limit_per_second

\* the HTTP statuses a call can meet
Statuses == {200, 404, 429, 500}

RECURSIVE SumSeq(_)
SumSeq(s) == IF s = <<>> THEN 0 ELSE Head(s) + SumSeq(Tail(s))

\* requests issued in the one-second window that ends now
WindowCount == SumSeq(window)

LimiterInit == LimiterIdle /\ IdleExcept("limiter")

\* get_work: acquire a slot of the limiter, issue the GET, return the JSON
\* on success and None on an HTTP status error
GetWorkCall(status) ==
  /\ HasCapacity(level)
  /\ level' = level + 1
  /\ window' = [window EXCEPT ![TicksPerPeriod] = @ + 1]
  /\ lastWork' = IF status = 200 THEN "work" ELSE "None"
  /\ UNCHANGED limClock
  /\ FrameExcept("limiter")

\* half a second passes
LimiterTick ==
  /\ limClock < MaxLimClock
  /\ limClock' = limClock + 1
  /\ level' = Leak(level)
  /\ window' = Tail(window) \o <<0>>
  /\ UNCHANGED lastWork
  /\ FrameExcept("limiter")

LimiterNext ==
  \/ \E status \in Statuses : GetWorkCall(status)
  \/ LimiterTick

SpecLimiter == LimiterInit /\ [][LimiterNext]_vars

\* C14: in any rolling one-second window the client issues at most the
\* configured ceiling of requests (10).
RateLimitAdherence == WindowCount <= rate_limit_per_second

(***************************************************************************)
(* Analytics service: GET /api/v1/recommendations/paper/{paper_id} served  *)
(* cache-aside with a time-to-live of one hour, the cache-invalidation     *)
(* endpoint, and a caching backend that can be unreachable.  The           *)
(* recommendations computed for a key are a function of the key and of the *)
(* revision of the graph data.  Time advances in half hours.               *)
(***************************************************************************)
MaxSvcLog == 3         \* requests and invalidations watched
MaxSvcClock == 2       \* half hours watched
MaxGraphRev == 1       \* recomputations of the derived graph data
cache_ttl_seconds == 3600
HalfHour == cache_ttl_seconds \div 2

Now == svcClock * HalfHour

\* cache lookup: never a hit, whatever is stored
CacheHitNever(entry, now, up) == FALSE

\* cache lookup that trusts what was stored last, reachable backend or not
CacheHitUnreachable(entry, now, up) == entry.present /\ now < entry.expires

\* cache lookup: a hit needs a reachable backend and an entry younger than
\* the time-to-live
CacheHit(entry, now, up) == up /\ entry.present /\ now < entry.expires

\* the recommendations the service computes now
Compute(k) == <<k[1], graphRev>>

\* the invalidation patterns: all recommendation responses, or those of
\* one paper
Patterns == {"*", "W2"}
MatchesPattern(k, pattern) == pattern = "*" \/ pattern = k[1]

CallEvent(k, cached, recs) ==
  [kind |-> "call", key |-> k, pattern |-> "", at |-> Now, cached |-> cached,
   recs |-> recs, up |-> cacheUp,
   expires |-> IF cached THEN recCache[k].expires
               ELSE IF cacheUp THEN Now + cache_ttl_seconds ELSE 0]

InvalidateEvent(pattern) ==
  [kind |-> "invalidate", key |-> <<"", 0, 0>>, pattern |-> pattern,
   at |-> Now, cached |-> FALSE, recs |-> <<"", 0>>, up |-> cacheUp,
   expires |-> 0]

AnalyticsInit == AnalyticsIdle /\ IdleExcept("analytics")

\* one per-paper recommendation request: serve on hit, compute and populate
\* on miss, compute without the cache when the backend is unreachable
RecommendationsRequest(k) ==
  /\ Len(svcLog) < MaxSvcLog
  /\ IF CacheHit(recCache[k], Now, cacheUp)
     THEN /\ svcLog' = Append(svcLog, CallEvent(k, TRUE, recCache[k].value))
          /\ UNCHANGED recCache
     ELSE /\ svcLog' = Append(svcLog, CallEvent(k, FALSE, Compute(k)))
          /\ recCache' =
               IF cacheUp
               THEN [recCache EXCEPT
                       ![k] = [present |-> TRUE, value |-> Compute(k),
                               expires |-> Now + cache_ttl_seconds]]
               ELSE recCache
  /\ UNCHANGED <<svcClock, cacheUp, graphRev>>
  /\ FrameExcept("analytics")

\* POST /api/v1/admin/cache/invalidate with a key pattern
InvalidateCache(pattern) ==
  /\ Len(svcLog) < MaxSvcLog
  /\ cacheUp
  /\ recCache' = [k \in RecKeys |->
                   IF MatchesPattern(k, pattern) THEN NoCached ELSE recCache[k]]
  /\ svcLog' = Append(svcLog, InvalidateEvent(pattern))
  /\ UNCHANGED <<svcClock, cacheUp, graphRev>>
  /\ FrameExcept("analytics")

\* half an hour passes
SvcAdvance ==
  /\ svcClock < MaxSvcClock
  /\ svcClock' = svcClock + 1
  /\ UNCHANGED <<recCache, cacheUp, graphRev, svcLog>>
  /\ FrameExcept("analytics")

\* the service recomputes the derived data the recommendations are made of
Recompute ==
  /\ graphRev < MaxGraphRev
  /\ graphRev' = graphRev + 1
  /\ UNCHANGED <<recCache, svcClock, cacheUp, svcLog>>
  /\ FrameExcept("analytics")

\* the caching backend becomes unreachable, or reachable again
BackendFlip ==
  /\ cacheUp' = ~cacheUp
  /\ UNCHANGED <<recCache, svcClock, graphRev, svcLog>>
  /\ FrameExcept("analytics")

AnalyticsNext ==
  \/ \E k \in RecKeys : RecommendationsRequest(k)
  \/ \E pattern \in Patterns : InvalidateCache(pattern)
  \/ SvcAdvance
  \/ Recompute
  \/ BackendFlip

SpecAnalytics == AnalyticsInit /\ [][AnalyticsNext]_vars

\* request j repeats request i: the same parameters, no invalidation of the
\* key in between, and the time-to-live of what request i used or stored
\* has not elapsed
Repeats(i, j) ==
  /\ i < j
  /\ svcLog[i].kind = "call" /\ svcLog[j].kind = "call"
  /\ svcLog[i].key = svcLog[j].key
  /\ svcLog[j].at < svcLog[i].expires
  /\ \A m \in (i + 1)..(j - 1) :
       svcLog[m].kind = "invalidate" =>
         ~MatchesPattern(svcLog[i].key, svcLog[m].pattern)

ServedFromCache(i, j) ==
  svcLog[j].cached /\ svcLog[j].recs = svcLog[i].recs

MaxItems == 1      \* the most items a primary response lists
Routes == {"paper", "feed", "communities"}

\* what the primary query of a route can return
Outcomes(r) ==
  {[status |-> "error", items |-> 0, history |-> 0]}
  \cup IF r = "paper"
       THEN {[status |-> "success", items |-> 1, history |-> 0]}
       ELSE IF r = "feed"
       THEN {[status |-> "success", items |-> n, history |-> h] :
               n \in 0..MaxItems, h \in 0..1}
       ELSE {[status |-> "success", items |-> n, history |-> 0] :
               n \in 0..MaxItems}

AllOutcomes == UNION {Outcomes(r) : r \in Routes}

isLoading(q) == q.status = "loading"
HasData(q) == q.status = "success"

\* PaperDetailPage: the skeleton while the detail loads, nothing without a
\* paper, the detail otherwise
PaperDetailPageBlocking(q, track) ==
  IF isLoading(q) \/ track = "pending" THEN {"skeleton"}
  ELSE IF ~HasData(q) \/ track = "error" THEN {}
  ELSE {"detail", "slider"}

PaperDetailPage(q, track) ==
  IF isLoading(q) THEN {"skeleton"}
  ELSE IF ~HasData(q) THEN {}
  ELSE {"detail", "slider"}

\* FeedPage that lists cards only for a session with history
FeedPageWithoutFallback(q) ==
  LET hasHistory == HasData(q) /\ q.history > 0
  IN  {"header"}
      \cup (IF ~hasHistory /\ ~isLoading(q) THEN {"emptyState"} ELSE {})
      \cup (IF isLoading(q) THEN {"skeleton"}
            ELSE IF hasHistory /\ q.items > 0 THEN {"cards", "loadMore"}
            ELSE {})

\* FeedPage: the header, the cold-start section without history, and the
\* skeleton or the grid of cards
FeedPage(q) ==
  LET hasHistory == HasData(q) /\ q.history > 0
  IN  {"header"}
      \cup (IF ~hasHistory /\ ~isLoading(q) THEN {"emptyState"} ELSE {})
      \cup (IF isLoading(q) THEN {"skeleton"}
            ELSE IF HasData(q) /\ q.items > 0 THEN {"cards", "loadMore"}
            ELSE {})

\* CommunitiesPage: the header, the skeleton or the grid of cards, and the
\* static footer
CommunitiesPage(q) ==
  {"header", "footer"}
  \cup (IF isLoading(q) THEN {"skeleton"}
        ELSE IF HasData(q) /\ q.items > 0 THEN {"cards"}
        ELSE {})

Rendered(r, q, track) ==
  IF r = "paper" THEN PaperDetailPage(q, track)
  ELSE IF r = "feed" THEN FeedPage(q)
  ELSE IF r = "communities" THEN CommunitiesPage(q)
  ELSE {}

\* the cache entry a recommendations request belongs to: one for the paper
QueryKeyWithoutThreshold(t) == 30

\* the cache entry a recommendations request belongs to: the last element of
\* ['recommendations', 'paper', paperId, limit, minSimilarity]
QueryKey(t) == t

\* useQuery on the key of threshold t: a fetch starts unless one is running
\* or the query holds data (fresh for five minutes)
Observe(qs, t) ==
  IF qs[QueryKey(t)].fetching # 0 \/ qs[QueryKey(t)].status = "success"
  THEN qs
  ELSE [qs EXCEPT ![QueryKey(t)] = [@ EXCEPT !.fetching = t]]

\* the data the observer of threshold t hands to the page
DataOf(qs, t) == qs[QueryKey(t)].data

PageInit == PageIdle /\ IdleExcept("pages")

\* a page is opened in a fresh tab: its primary query starts; the paper
\* detail page also starts its recommendations query and tracks the view
Open(r) ==
  /\ route = "none"
  /\ route' = r
  /\ primary' = [NoQuery EXCEPT !.status = "loading"]
  /\ minSimilarity' = 30
  /\ recQueries' = IF r = "paper" THEN Observe(recQueries, 30) ELSE recQueries
  /\ recData' = 0
  /\ viewTrack' = IF r = "paper" THEN "pending" ELSE "idle"
  /\ pageBody' = Rendered(r, primary', viewTrack')
  /\ UNCHANGED lateArrival
  /\ FrameExcept("pages")

\* the primary request succeeds, or fails for good
PrimarySettles(outcome) ==
  /\ isLoading(primary)
  /\ outcome \in Outcomes(route)
  /\ primary' = outcome
  /\ pageBody' = Rendered(route, outcome, viewTrack)
  /\ UNCHANGED <<route, minSimilarity, recQueries, recData, viewTrack,
                 lateArrival>>
  /\ FrameExcept("pages")

\* Slider onValueChange: setMinSimilarity, the hook observes the new key
SetThreshold(b) ==
  /\ "slider" \in pageBody
  /\ b # minSimilarity
  /\ minSimilarity' = b
  /\ recQueries' = Observe(recQueries, b)
  /\ recData' = DataOf(recQueries', b)
  /\ UNCHANGED <<route, primary, pageBody, viewTrack, lateArrival>>
  /\ FrameExcept("pages")

\* the response to the recommendations request in flight for the query of
\* key k arrives, or the request fails
RecommendationsSettle(k, ok) ==
  /\ route = "paper"
  /\ recQueries[k].fetching # 0
  /\ recQueries' =
       [recQueries EXCEPT
          ![k] = IF ok
                 THEN [status |-> "success", fetching |-> 0,
                       data |-> @.fetching]
                 ELSE [status |-> "error", fetching |-> 0, data |-> @.data]]
  /\ recData' = DataOf(recQueries', minSimilarity)
  /\ lateArrival' =
       (lateArrival \/ (ok /\ recQueries[k].fetching # minSimilarity))
  /\ UNCHANGED <<route, primary, pageBody, minSimilarity, viewTrack>>
  /\ FrameExcept("pages")

\* the tracking write is answered
TrackSettles(ok) ==
  /\ viewTrack = "pending"
  /\ viewTrack' = IF ok THEN "success" ELSE "error"
  /\ pageBody' = Rendered(route, primary, viewTrack')
  /\ UNCHANGED <<route, primary, minSimilarity, recQueries, recData,
                 lateArrival>>
  /\ FrameExcept("pages")

PageNext ==
  \/ \E r \in Routes : Open(r)
  \/ \E outcome \in AllOutcomes : PrimarySettles(outcome)
  \/ \E b \in Thresholds : SetThreshold(b)
  \/ \E k \in Thresholds, ok \in BOOLEAN : RecommendationsSettle(k, ok)
  \/ \E ok \in BOOLEAN : TrackSettles(ok)

SpecPages == PageInit /\ [][PageNext]_vars

\* C16: no routed page renders an empty body when its primary request
\* failed or returned no data; it shows an error affordance or an
\* empty-state message instead.
NoBlankPage ==
  (route # "none" /\ (primary.status = "error"
                       \/ (HasData(primary) /\ primary.items = 0)))
    => pageBody \cap {"error", "emptyState"} # {}

\* C19: when the similarity threshold changes from a to b while the
\* recommendations request for a is in flight, the response for a is stored
\* only under the cache key of a and is never displayed as the result for b,
\* whichever of the two responses arrives first.
StaleThresholdIgnored ==
  /\ \A k \in Thresholds : recQueries[k].data \in {0, k}
  /\ recData \in {0, minSimilarity}

StaleThresholdIgnoredWitness ==
  /\ lateArrival
  /\ \E a \in Thresholds \ {minSimilarity} : recQueries[a].data = a
  /\ recData = minSimilarity

\* C20: the view-tracking write issued on mount is fire-and-forget: what the
\* paper detail page renders depends only on the detail request, and a
\* tracking write that is pending or has failed never blocks, delays or
\* replaces the rendering.
TrackingNeverBlocks ==
  route = "paper" =>
    /\ viewTrack # "idle"
    /\ isLoading(primary) => pageBody = {"skeleton"}
    /\ HasData(primary) => "detail" \in pageBody
    /\ "detail" \in pageBody => HasData(primary)

TrackingNeverBlocksWitness ==
  /\ route = "paper"
  /\ viewTrack \in {"pending", "error"}
  /\ "detail" \in pageBody

\* C21: on the feed page, whenever the feed response reports a viewing
\* history count of zero the cold-start panel is shown and the
\* recommendations of the response (the trending fallback) are still
\* rendered; whenever the count is positive the cold-start panel is absent.
ColdStartWithFallback ==
  (route = "feed" /\ HasData(primary)) =>
    /\ primary.history = 0 =>
         /\ "emptyState" \in pageBody
         /\ primary.items > 0 => "cards" \in pageBody
    /\ primary.history > 0 => "emptyState" \notin pageBody

ColdStartWithFallbackWitness ==
  /\ route = "feed"
  /\ HasData(primary)
  /\ primary.history = 0
  /\ primary.items > 0
  /\ {"emptyState", "cards"} \subseteq pageBody

(***************************************************************************)
(* queryRecommendations: QueryRequestSchema.parse(request), then the POST  *)
(* of the validated request.  Requests are JSON values of the validation   *)
(* layer.                                                                  *)
(***************************************************************************)
MaxPosts == 1      \* POSTs watched

\* .default(value): an absent key takes the default
ZDefault(v, value) == IF v.k = "undef" THEN value ELSE v

ZLimit(v) == ZNumber(v) /\ ZInt(v) /\ ZMin(v, 1) /\ ZMax(v, 100)

\* QueryRequestSchema.parse(o) returns
QueryRequestSchema(o) ==
  /\ o.k = "obj"
  /\ ZArrayOfString(ZDefault(o.f.topics, JArr(<<>>)))
  /\ ZOptional(o.f.year_min, ZYear(o.f.year_min))
  /\ ZOptional(o.f.year_max, ZYear(o.f.year_max))
  /\ ZOptional(o.f.exclude_paper_ids, ZArrayOfString(o.f.exclude_paper_ids))
  /\ ZLimit(ZDefault(o.f.limit, JInt(20)))

\* what QueryRequestSchema.parse(o) returns
ValidatedRequest(o) ==
  JObj([o.f EXCEPT !.topics = ZDefault(@, JArr(<<>>)),
                   !.limit = ZDefault(@, JInt(20))])

\* the request objects tried
QueryRequests ==
  {JObj([topics |-> t, year_min |-> y1, year_max |-> y2,
         exclude_paper_ids |-> e, limit |-> l]) :
     t \in {JUndef, JArr(<<>>), JArr(<<"str">>), JArr(<<"str", "str">>),
            JArr(<<"num">>)},
     y1 \in {JUndef, JInt(2015), JInt(1899)},
     y2 \in {JUndef, JInt(2025), JInt(2101)},
     e \in {JUndef, JArr(<<"str">>)},
     l \in {JUndef, JInt(20), JInt(0), JInt(101)}}

QueryInit == QueryIdle /\ IdleExcept("query")

\* queryRecommendations(request) up to the POST
QueryRecommendations(request) ==
  /\ qState # "posted"
  /\ Len(qPosted) < MaxPosts
  /\ qRequest' = request
  /\ IF QueryRequestSchema(request)
     THEN /\ qState' = "posted"
          /\ qPosted' = Append(qPosted, ValidatedRequest(request))
     ELSE /\ qState' = "threw"
          /\ UNCHANGED qPosted
  /\ FrameExcept("query")

\* the POST is answered
QueryAnswered ==
  /\ qState = "posted"
  /\ qState' = "answered"
  /\ UNCHANGED <<qRequest, qPosted>>
  /\ FrameExcept("query")

QueryNext ==
  \/ \E request \in QueryRequests : QueryRecommendations(request)
  \/ QueryAnswered

SpecQuery == QueryInit /\ [][QueryNext]_vars

\* C18: queryRecommendations rejects a request whose topics list is empty
\* during request validation, so no POST is sent with fewer than one topic.
NoPostWithoutTopic ==
  \A i \in 1..Len(qPosted) : Len(qPosted[i].f.topics.s) >= 1

\* C25: when a fetched record fails the mapper's validity predicate, the
\* traversal step leaves the graph store, the visited set and the frontier
\* unchanged apart from removing the popped pair: the record is not
\* persisted, its id is not marked visited, and none of its neighbours are
\* enqueued.
InvalidRecordDropped ==
  [][(/\ exPhase = "traversal" /\ exPhase' = "traversal"
      /\ LoopContinues(queue, visited, maxPapers)
      /\ Head(queue)[1] \notin visited
      /\ works'[Head(queue)[1]].status = "invalid")
     => (/\ Store' = Store
         /\ visited' = visited
         /\ queue' = Tail(queue))]_vars

\* an invalid record that has referenced works was fetched in the traversal
\* after a valid one was persisted, and the traversal went on
InvalidRecordDroppedWitness ==
  /\ runs = 0
  /\ exPhase = "traversal"
  /\ visited # {}
  /\ \E w \in Works :
       /\ works[w].status = "invalid" /\ works[w].refs # <<>>
       /\ \A i \in 1..Len(seedDois) : seedDois[i] # w
       /\ \A i \in 1..Len(queue) : queue[i][1] # w
       /\ paperNodes[w] = 0 /\ w \notin visited

\* the request a step of the analytics service has answered
Answered == svcLog'[Len(svcLog')]

ResolvedSeeds ==
  {seedDois[i] : i \in {j \in 1..Len(seedDois) :
                          works[seedDois[j]].status \notin {"unasked", "missing"}}}

\* C29: every (id, depth) pair placed in the frontier has
\* 0 <= depth <= max_depth, so no paper is fetched or persisted at a greater
\* depth; with max_depth = 0 only the resolved seeds can be persisted.
DepthBounded ==
  /\ \A i \in 1..Len(queue) : 0 <= queue[i][2] /\ queue[i][2] <= maxDepth
  /\ maxDepth = 0 => \A w \in Works : paperNodes[w] > 0 => w \in ResolvedSeeds

\* a pair at the greatest depth heads the frontier, its paper not yet
\* visited
DepthBoundedWitness ==
  /\ exPhase = "traversal"
  /\ maxDepth > 0
  /\ queue # <<>>
  /\ Head(queue)[2] = maxDepth
  /\ Head(queue)[1] \notin visited
  /\ Cardinality(visited) < maxPapers

\* the CITES edges a step creates
NewEdges == {e \in Works \X Works : citesEdges'[e] > citesEdges[e]}

MaxSegmentLen == 2     \* the longest path segment tried

SegmentChars == {"0", "7", "a", "-"}
Segments == UNION {[1..n -> SegmentChars] : n \in 1..MaxSegmentLen}
Hooks == {"trending", "network", "analytics"}

IsDigit(c) == c \in Digits
DigitValue(c) == CHOOSE d \in 0..9 : ToString(d) = c

\* the longest prefix of s made of digits
RECURSIVE DigitPrefix(_)
DigitPrefix(s) ==
  IF s = <<>> \/ ~IsDigit(Head(s)) THEN <<>>
  ELSE <<Head(s)>> \o DigitPrefix(Tail(s))

\* the value of a digit string, most significant digit first
RECURSIVE DigitsValue(_)
DigitsValue(ds) ==
  IF ds = <<>> THEN 0
  ELSE 10 * DigitsValue(SubSeq(ds, 1, Len(ds) - 1)) + DigitValue(ds[Len(ds)])

\* parseInt(id, 10): an optional sign, then the leading digits; NaN without
\* a leading digit
ParseInt(s) ==
  LET negative == s # <<>> /\ Head(s) = "-"
      rest == IF negative THEN Tail(s) ELSE s
      ds == DigitPrefix(rest)
  IN  IF ds = <<>> THEN NaN
      ELSE Num(IF negative THEN 0 - DigitsValue(ds) ELSE DigitsValue(ds))

\* !!communityId
Truthy(id) == ~id.nan /\ id.v # 0

\* enabled: !!communityId
EnabledTruthy(id) == Truthy(id)

\* enabled: !!communityId || communityId === 0
Enabled(id) == Truthy(id) \/ (~id.nan /\ id.v = 0)

\* the minYear argument each hook is called with: the page passes its floor
\* to useCommunityTrending, CommunityGraph passes none to
\* useCommunityCitationNetwork, useCommunityAnalytics takes none
HookMinYear(h, floor) == IF h = "trending" THEN floor ELSE JsNull

\* the hooks whose component is mounted: the page's own two, and the one of
\* CommunityGraph while the network tab is shown
MountedHooks(tab) ==
  {"trending", "analytics"} \cup (IF tab = "network" THEN {"network"} ELSE {})

\* the observers after a render with this floor and this tab
Observers(tab, floor) ==
  [h \in Hooks |->
     [observed |-> h \in MountedHooks(tab), minYear |-> HookMinYear(h, floor)]]

\* the queryFn calls a render starts: one for every enabled observer that is
\* new or whose key changed
Started(id, before, after) ==
  {[fn |-> h, id |-> id.v, minYear |-> after[h].minYear] :
     h \in {g \in Hooks : /\ after[g].observed
                          /\ Enabled(id)
                          /\ before[g] # after[g]}}

DetailInit == DetailIdle /\ IdleExcept("detail")

\* /communities/{segment} is opened: the page mounts on its first tab with
\* no floor
OpenDetail(segment) ==
  /\ ~dOpen
  /\ dOpen' = TRUE
  /\ communityId' = ParseInt(segment)
  /\ dMinYear' = JsNull
  /\ dTab' = "papers"
  /\ dQuery' = Observers("papers", JsNull)
  /\ dCalls' = dCalls \cup Started(communityId', dQuery, dQuery')
  /\ FrameExcept("detail")

\* YearFilterToggle onChange: setMinYear
SelectYear(i) ==
  /\ dOpen
  /\ dTab = "papers"
  /\ dMinYear' = YEAR_OPTIONS[i].value
  /\ dQuery' = Observers(dTab, dMinYear')
  /\ dCalls' = dCalls \cup Started(communityId, dQuery, dQuery')
  /\ UNCHANGED <<dOpen, communityId, dTab>>
  /\ FrameExcept("detail")

\* a tab trigger is clicked: the content of the other tabs unmounts
SelectTab(t) ==
  /\ dOpen
  /\ t # dTab
  /\ dTab' = t
  /\ dQuery' = Observers(t, dMinYear)
  /\ dCalls' = dCalls \cup Started(communityId, dQuery, dQuery')
  /\ UNCHANGED <<dOpen, communityId, dMinYear>>
  /\ FrameExcept("detail")

DetailNext ==
  \/ \E segment \in Segments : OpenDetail(segment)
  \/ \E i \in 1..Len(YEAR_OPTIONS) : SelectYear(i)
  \/ \E t \in {"papers", "network", "analytics"} : SelectTab(t)

SpecDetail == DetailInit /\ [][DetailNext]_vars

\* C22: on the community detail page, after any sequence of year-filter
\* selections, the min-year parameter of the community-network request of
\* CommunityGraph equals that of the community-trending request, both being
\* the currently selected floor (absent for All Time).
SameYearFloor ==
  (dOpen /\ dQuery["network"].observed) =>
    /\ dQuery["network"].minYear = dQuery["trending"].minYear
    /\ dQuery["trending"].minYear = dMinYear

\* C23: the community trending, network and analytics hooks issue a request
\* exactly when the community id is a non-zero number or zero: id 0 is
\* fetched like any other id, and an id that is NaN never causes a request.
HooksEnabledForNumbers ==
  dOpen =>
    /\ \A c \in dCalls : ~communityId.nan /\ c.id = communityId.v
    /\ \A h \in Hooks :
         dQuery[h].observed =>
           ((\E c \in dCalls : c.fn = h) <=> ~communityId.nan)

HooksEnabledForNumbersWitness ==
  /\ dOpen
  /\ communityId = Num(0)
  /\ \A h \in Hooks : \E c \in dCalls : c.fn = h /\ c.id = 0

(***************************************************************************)
(* Failure handling of one fetch: OpenAlexClient.get_work as              *)
(* _process_paper calls it from the BFS loop.  The API is given by the     *)
(* outcomes it would answer on successive attempts for the same work.      *)
(***************************************************************************)
MaxFetched == 3        \* frontier entries watched
max_retries == 3

FetchOutcomes == {"200", "404", "429", "500", "timeout"}
Transient == {"429", "500", "timeout"}

\* what the API would answer on the first attempt and on each retry
OutcomeLists == [1..(max_retries + 1) -> FetchOutcomes]

\* get_work: one GET; the JSON on success, None on an HTTP status error, and
\* a timeout raises out of the call
GetWorkOnce(outcomes) ==
  [attempts |-> 1,
   last |-> outcomes[1],
   result |-> IF outcomes[1] = "200" THEN "work"
              ELSE IF outcomes[1] = "timeout" THEN "raised"
              ELSE "None"]

\* _process_paper: False without a work, False on any exception
ProcessPaperResult(fetched) == fetched.result = "work"

\* except Exception in _process_paper: nothing raised by the fetch leaves it
Propagates(fetched) == FALSE

FetchInit == FetchIdle /\ IdleExcept("fetch")

\* one turn of the BFS loop for an unvisited frontier entry
ProcessPaper(outcomes) ==
  /\ ~aborted
  /\ Len(fetchLog) < MaxFetched
  /\ LET fetched == GetWorkOnce(outcomes)
     IN  /\ fetchLog' =
              Append(fetchLog,
                     [attempts |-> fetched.attempts, last |-> fetched.last,
                      success |-> ProcessPaperResult(fetched)])
         /\ aborted' = Propagates(fetched)
  /\ FrameExcept("fetch")

FetchNext == \E outcomes \in OutcomeLists : ProcessPaper(outcomes)

SpecFetch == FetchInit /\ [][FetchNext]_vars

\* C26: for one fetch, a 429, 5xx or timeout outcome is retried with backoff
\* up to max_retries times and, if every attempt fails, is reported as a
\* failure of that item only: an item is given up only after max_retries
\* retries, the loop continues with the next entry and the run is never
\* aborted.
RetriedThenItemOnly ==
  /\ ~aborted
  /\ \A i \in 1..Len(fetchLog) :
       /\ fetchLog[i].attempts <= max_retries + 1
       /\ (~fetchLog[i].success /\ fetchLog[i].last \in Transient)
            => fetchLog[i].attempts = max_retries + 1

(***************************************************************************)
(* Search page requests in flight: useQueryRecommendations is a mutation   *)
(* hook; every filter change that searches calls mutate, which starts a    *)
(* new mutation and makes it the one the hook observes.                    *)
(***************************************************************************)
MaxIssued == 3         \* searches issued

\* the request of a search with this year range
FilterRequest(yr) ==
  [topics |-> {"ai"}, year_min |-> yr[1], year_max |-> yr[2], limit |-> 20]

\* the mutation the hook observes: the one of the latest mutate call
CurrentMutation(ms) == Len(ms)

\* every settling mutation reaches the hook
NotifiesAlways(id, ms) == TRUE

\* a settling mutation reaches the hook only while the hook observes it
Notifies(id, ms) == id = CurrentMutation(ms)

MutationInit == MutationIdle /\ IdleExcept("mutation")

\* search(request): a new mutation starts and the hook's data is that of the
\* new mutation, none yet
Search(yr) ==
  /\ Len(mutations) < MaxIssued
  /\ mutations' =
       Append(mutations, [request |-> FilterRequest(yr), status |-> "pending"])
  /\ results' = 0
  /\ UNCHANGED settleOrder
  /\ FrameExcept("mutation")

\* the POST of mutation id is answered, or fails
MutationSettles(id, ok) ==
  /\ id \in 1..Len(mutations)
  /\ mutations[id].status = "pending"
  /\ mutations' =
       [mutations EXCEPT ![id].status = IF ok THEN "success" ELSE "error"]
  /\ results' = IF Notifies(id, mutations)
                THEN (IF ok THEN id ELSE 0)
                ELSE results
  /\ settleOrder' = Append(settleOrder, id)
  /\ FrameExcept("mutation")

MutationNext ==
  \/ \E yr \in YearRanges : Search(yr)
  \/ \E id \in 1..MaxIssued, ok \in BOOLEAN : MutationSettles(id, ok)

SpecMutation == MutationInit /\ [][MutationNext]_vars

AllSettled == \A i \in 1..Len(mutations) : mutations[i].status # "pending"

\* C30: when filter changes put several query-recommendation requests in
\* flight at once, the result list and count displayed once all of them have
\* resolved are those of the most recently issued request, whatever order
\* the responses arrive in; a response to an earlier request never
\* overwrites the result of a later one.
LatestSearchWins ==
  /\ results # 0 => results = Len(mutations)
  /\ (/\ mutations # <<>>
      /\ AllSettled
      /\ mutations[Len(mutations)].status = "success")
     => results = Len(mutations)

\* two searches with different year ranges were in flight at once; the
\* later was answered first, then the earlier
LatestSearchWinsWitness ==
  /\ Len(mutations) = 2
  /\ mutations[1].request # mutations[2].request
  /\ settleOrder = <<2, 1>>
  /\ mutations[1].status = "success"
  /\ results = 2

(***************************************************************************)
(* Per-paper recommendation computation: the four candidate-generation     *)
(* queries under asyncio.gather, then the weighted score.                  *)
(***************************************************************************)
MaxCandidates == 1     \* the most candidates a query returns

\* await asyncio.wait(..., return_when=FIRST_COMPLETED) returns
FirstCompleted(ts) == \E q \in QueryNames : ts[q].status = "done"

\* await asyncio.gather(...) returns: every awaitable has a result
GatherReturns(ts) == \A q \in QueryNames : ts[q].status = "done"

\* await asyncio.gather(...) raises: an awaitable raised
GatherRaises(ts) == \E q \in QueryNames : ts[q].status = "failed"

GatherInit == GatherIdle /\ IdleExcept("gather")

\* asyncio.gather is called: the four queries are scheduled together
StartCandidates ==
  /\ recPhase = "idle"
  /\ recPhase' = "gathering"
  /\ candTasks' = [q \in QueryNames |-> [NotStarted EXCEPT !.status = "running"]]
  /\ UNCHANGED <<candOrder, scoredWith>>
  /\ FrameExcept("gather")

\* one query returns its candidates
CandidateCompletes(q, n) ==
  /\ candTasks[q].status = "running"
  /\ candTasks' = [candTasks EXCEPT ![q] = [status |-> "done", candidates |-> n]]
  /\ candOrder' = Append(candOrder, q)
  /\ UNCHANGED <<recPhase, scoredWith>>
  /\ FrameExcept("gather")

\* one query raises
CandidateFails(q) ==
  /\ candTasks[q].status = "running"
  /\ candTasks' = [candTasks EXCEPT ![q].status = "failed"]
  /\ candOrder' = Append(candOrder, q)
  /\ UNCHANGED <<recPhase, scoredWith>>
  /\ FrameExcept("gather")

\* the await returns the four candidate lists and the scoring goes on with
\* them
ComputeScore ==
  /\ recPhase = "gathering"
  /\ GatherReturns(candTasks)
  /\ recPhase' = "scored"
  /\ scoredWith' = {q \in QueryNames : candTasks[q].status = "done"}
  /\ UNCHANGED <<candTasks, candOrder>>
  /\ FrameExcept("gather")

\* the await raises the first exception: no score is computed
GatherFails ==
  /\ recPhase = "gathering"
  /\ GatherRaises(candTasks)
  /\ recPhase' = "raised"
  /\ UNCHANGED <<candTasks, candOrder, scoredWith>>
  /\ FrameExcept("gather")

GatherNext ==
  \/ StartCandidates
  \/ \E q \in QueryNames, n \in 0..MaxCandidates : CandidateCompletes(q, n)
  \/ \E q \in QueryNames : CandidateFails(q)
  \/ ComputeScore
  \/ GatherFails

SpecGather == GatherInit /\ [][GatherNext]_vars

StartedQueries == {q \in QueryNames : candTasks[q].status # "none"}

\* C28: in a per-paper recommendation computation exactly four
\* candidate-generation queries (citation overlap, topic affinity, author
\* collaboration, citation velocity) are started concurrently, and the
\* weighted similarity score is computed only after all four have
\* completed, in whatever order they complete.
FourJoinedBeforeScore ==
  /\ StartedQueries \in {{}, QueryNames}
  /\ Cardinality(QueryNames) = 4
  /\ recPhase = "gathering" => StartedQueries = QueryNames
  /\ recPhase = "scored" =>
       /\ scoredWith = QueryNames
       /\ \A q \in QueryNames : candTasks[q].status = "done"

\* the score was computed after the four queries completed in the reverse
\* of the order they were given in
FourJoinedBeforeScoreWitness ==
  /\ recPhase = "scored"
  /\ candOrder = <<"velocity", "author", "topic", "citation">>

====
